---- MODULE Spec2Model ----
(***************************************************************************)
(* Model of the task tracker's persistence store (StorageService) and task *)
(* engine (TaskService).  The disk is three variables: whether the data    *)
(* directory exists and the content of the primary and the backup file.    *)
(* Every operation is one action that runs the whole method, with the      *)
(* outcome of each file-system call drawn from the input record io.        *)
(***************************************************************************)
EXTENDS Integers, Sequences, FiniteSets, TLC

VARIABLES dataDir, filePath, backupPath, clock, created, deleted, last,
          inflight

vars ==
  <<dataDir, filePath, backupPath, clock, created, deleted, last, inflight>>

(***************************************************************************)
(* Bounds of the model.                                                    *)
(***************************************************************************)
MaxCreates == 2
MaxClock == 1
MaxPad == 1

(***************************************************************************)
(* Program constants.                                                      *)
(***************************************************************************)
MaxTitleLength == 200

(***************************************************************************)
(* Strings are sequences of one-character strings.                         *)
(***************************************************************************)
Rep(c, n) == [i \in 1..n |-> c]

WhiteSpace == {" "}

RECURSIVE TrimStart(_)
TrimStart(s) ==
  IF s # <<>> /\ Head(s) \in WhiteSpace THEN TrimStart(Tail(s)) ELSE s

RECURSIVE TrimEnd(_)
TrimEnd(s) ==
  IF s # <<>> /\ s[Len(s)] \in WhiteSpace
  THEN TrimEnd(SubSeq(s, 1, Len(s) - 1))
  ELSE s

\* String.prototype.trim
Trim(s) == TrimEnd(TrimStart(s))

\* An optional value: <<>> is undefined (or an omitted key), <<v>> is v.
None == <<>>
Some(v) == <<v>>

\* Mutant of TrimOrUndefined: the empty string is kept.
TrimOrUndefined_KeepsEmpty(o) ==
  IF o = None THEN None ELSE Some(Trim(o[1]))

\* x?.trim() || undefined
TrimOrUndefined(o) ==
  IF o = None THEN None
  ELSE IF Trim(o[1]) = <<>> THEN None ELSE Some(Trim(o[1]))

(***************************************************************************)
(* JavaScript values, as far as load and save look at them.                *)
(***************************************************************************)
JUndefined == [t |-> "undefined"]
JNull == [t |-> "null"]
JNumber(n) == [t |-> "number", nf |-> "finite", v |-> n]
NaN == [t |-> "number", nf |-> "NaN", v |-> 0]
Infinity == [t |-> "number", nf |-> "Infinity", v |-> 0]
JString(s) == [t |-> "string", v |-> s]
JArray(items) == [t |-> "array", items |-> items]
JObject(tasks, nextId) == [t |-> "object", tasks |-> tasks, nextId |-> nextId]

TypeOf(v) == IF v.t \in {"null", "array"} THEN "object" ELSE v.t
ArrayIsArray(v) == v.t = "array"
IsFinite(v) == v.t = "number" /\ v.nf = "finite"

\* Reading a property of null or undefined throws a TypeError.
PropertyThrows(v) == v.t \in {"null", "undefined"}
GetTasks(v) == IF v.t = "object" THEN v.tasks ELSE JUndefined
GetNextId(v) == IF v.t = "object" THEN v.nextId ELSE JUndefined

\* db.nextId++
Increment(n) == IF IsFinite(n) THEN JNumber(n.v + 1) ELSE n

(***************************************************************************)
(* File contents.  A file is absent, holds text that is not JSON, or holds *)
(* the text of a JSON value.                                               *)
(***************************************************************************)
Absent == [k |-> "absent"]
Garbage == [k |-> "raw", s |-> "garbage"]
JsonText(v) == [k |-> "json", v |-> v]

\* The in-memory TaskDatabase.
TaskDatabase(tasks, nextId) == [tasks |-> tasks, nextId |-> nextId]
EmptyDatabase == TaskDatabase(<<>>, JNumber(1))

\* JSON.stringify(db, null, 2): keys whose value is undefined are left
\* out, a number that is not finite is written as null.
StringifyNumber(n) == IF IsFinite(n) THEN n ELSE JNull
\* Mutant of JSONstringify: only the task list is written.
JSONstringify_TasksOnly(db) == JsonText(JArray(db.tasks))

JSONstringify(db) ==
  JsonText(JObject(JArray(db.tasks), StringifyNumber(db.nextId)))

\* JSON.parse(data): a SyntaxError on text that is not JSON.
JSONparse(text) ==
  IF text.k = "json" THEN [ok |-> TRUE, v |-> text.v]
  ELSE [ok |-> FALSE, v |-> JUndefined]

(***************************************************************************)
(* Faults.                                                                 *)
(***************************************************************************)
NoError == [name |-> "none", msg |-> "none"]
StorageError(msg) == [name |-> "StorageError", msg |-> msg]
ValidationError(msg) == [name |-> "ValidationError", msg |-> msg]
TaskNotFoundError == [name |-> "TaskNotFoundError", msg |-> "task_not_found"]

MsgMkdirFailed == "data_directory_creation_failed"
MsgFormatInvalid == "data_file_format_invalid"
MsgCorrupted == "data_file_corrupted_restore_from_backup_tasks.json.bak"
MsgLoadFailed == "data_load_failed"
MsgSaveFailed == "data_save_failed"
MsgBackupFailed == "backup_creation_failed"
MsgTitleRequired == "title_required"
MsgTitleTooLong == "title_too_long"

(***************************************************************************)
(* The file system and the outcomes of its calls.                          *)
(***************************************************************************)
Disk(d, f, b) == [dataDir |-> d, filePath |-> f, backupPath |-> b]

IoOk == [mkdir |-> "ok", read |-> "ok", copy |-> "ok", write |-> "ok"]
IoOutcomes ==
  { IoOk,
    [IoOk EXCEPT !.mkdir = "fail"],
    [IoOk EXCEPT !.read = "fail"],
    [IoOk EXCEPT !.copy = "fail"],
    [IoOk EXCEPT !.copy = "partial"],
    [IoOk EXCEPT !.write = "fail"],
    [IoOk EXCEPT !.write = "partial"] }

\* load only reads: the outcomes of the other calls do not reach it.
ReadOutcomes == {IoOk, [IoOk EXCEPT !.read = "fail"]}

\* The outcomes tried on the operations that rewrite a stored task.
WriteOutcomes == {IoOk, [IoOk EXCEPT !.write = "fail"]}

Outcome(fs, error, events) == [fs |-> fs, error |-> error, events |-> events]

(***************************************************************************)
(* StorageService                                                          *)
(***************************************************************************)
exists(fs) == fs.filePath.k # "absent"

initialize(fs, io) ==
  IF fs.dataDir THEN Outcome(fs, NoError, <<>>)
  ELSE IF io.mkdir = "fail"
       THEN Outcome(fs, StorageError(MsgMkdirFailed), <<"mkdir_failed">>)
       ELSE Outcome([fs EXCEPT !.dataDir = TRUE], NoError, <<"mkdir">>)

\* Mutant of backup: an existing backup is never overwritten.
backup_KeepsOldBackup(fs, io) ==
  IF ~exists(fs) \/ fs.backupPath # Absent THEN Outcome(fs, NoError, <<>>)
  ELSE IF io.copy = "ok"
       THEN Outcome([fs EXCEPT !.backupPath = fs.filePath], NoError,
                    <<"copy">>)
       ELSE IF io.copy = "partial"
            THEN Outcome([fs EXCEPT !.backupPath = Garbage],
                         StorageError(MsgBackupFailed), <<"copy_failed">>)
            ELSE Outcome(fs, StorageError(MsgBackupFailed),
                         <<"copy_failed">>)

backup(fs, io) ==
  IF ~exists(fs) THEN Outcome(fs, NoError, <<>>)
  ELSE IF io.copy = "ok"
       THEN Outcome([fs EXCEPT !.backupPath = fs.filePath], NoError,
                    <<"copy">>)
       ELSE IF io.copy = "partial"
            THEN Outcome([fs EXCEPT !.backupPath = Garbage],
                         StorageError(MsgBackupFailed), <<"copy_failed">>)
            ELSE Outcome(fs, StorageError(MsgBackupFailed),
                         <<"copy_failed">>)

\* Mutant of writeFile: the file is opened with the flag wx, so that the
\* write fails when the file exists.
writeFile_FailsOnExistingFile(fs, data, io) ==
  IF io.write = "ok" /\ fs.filePath = Absent
  THEN Outcome([fs EXCEPT !.filePath = data], NoError, <<"write">>)
  ELSE Outcome(fs, StorageError(MsgSaveFailed), <<"write_failed">>)

writeFile(fs, data, io) ==
  IF io.write = "ok"
  THEN Outcome([fs EXCEPT !.filePath = data], NoError, <<"write">>)
  ELSE IF io.write = "partial"
       THEN Outcome([fs EXCEPT !.filePath = Garbage],
                    StorageError(MsgSaveFailed), <<"write_failed">>)
       ELSE Outcome(fs, StorageError(MsgSaveFailed), <<"write_failed">>)

\* Mutant of save: the primary file is written before it is copied.
save_WritesBeforeBackup(fs, db, io) ==
  LET i == initialize(fs, io) IN
  IF i.error # NoError
  THEN Outcome(i.fs, StorageError(MsgSaveFailed), i.events)
  ELSE
    LET w == writeFile(i.fs, JSONstringify(db), io) IN
    IF w.error # NoError
    THEN Outcome(w.fs, w.error, i.events \o w.events)
    ELSE
      LET b == IF exists(i.fs) THEN backup(w.fs, io)
               ELSE Outcome(w.fs, NoError, <<>>) IN
      IF b.error # NoError
      THEN Outcome(b.fs, StorageError(MsgSaveFailed),
                   i.events \o w.events \o b.events)
      ELSE Outcome(b.fs, NoError, i.events \o w.events \o b.events)

\* Mutant of save: a failed backup does not stop the write.
save_IgnoresBackupFailure(fs, db, io) ==
  LET i == initialize(fs, io) IN
  IF i.error # NoError
  THEN Outcome(i.fs, StorageError(MsgSaveFailed), i.events)
  ELSE
    LET b == IF exists(i.fs) THEN backup(i.fs, io)
             ELSE Outcome(i.fs, NoError, <<>>)
        w == writeFile(b.fs, JSONstringify(db), io)
    IN Outcome(w.fs, w.error, i.events \o b.events \o w.events)

save(fs, db, io) ==
  LET i == initialize(fs, io) IN
  IF i.error # NoError
  THEN Outcome(i.fs, StorageError(MsgSaveFailed), i.events)
  ELSE
    LET b == IF exists(i.fs) THEN backup(i.fs, io)
             ELSE Outcome(i.fs, NoError, <<>>) IN
    IF b.error # NoError
    THEN Outcome(b.fs, StorageError(MsgSaveFailed), i.events \o b.events)
    ELSE
      LET w == writeFile(b.fs, JSONstringify(db), io) IN
      Outcome(w.fs, w.error, i.events \o b.events \o w.events)

Loaded(db, error) == [db |-> db, error |-> error]

\* Mutant of load: no check that the primary file exists before reading.
load_WithoutExistsCheck(fs, io) ==
  IF ~exists(fs) \/ io.read = "fail"
  THEN Loaded(None, StorageError(MsgLoadFailed))
  ELSE
    LET p == JSONparse(fs.filePath) IN
    IF ~p.ok THEN Loaded(None, StorageError(MsgCorrupted))
    ELSE IF PropertyThrows(p.v)
         THEN Loaded(None, StorageError(MsgLoadFailed))
    ELSE IF ~ArrayIsArray(GetTasks(p.v)) \/ TypeOf(GetNextId(p.v)) # "number"
         THEN Loaded(None, StorageError(MsgFormatInvalid))
    ELSE Loaded(Some(TaskDatabase(GetTasks(p.v).items, GetNextId(p.v))),
                NoError)

\* Mutant of load: a primary file that does not parse is replaced by what
\* the backup file holds.
load_RestoresFromBackup(fs, io) ==
  IF ~exists(fs) THEN Loaded(Some(EmptyDatabase), NoError)
  ELSE IF io.read = "fail" THEN Loaded(None, StorageError(MsgLoadFailed))
  ELSE
    LET p == IF JSONparse(fs.filePath).ok \/ fs.backupPath = Absent
             THEN JSONparse(fs.filePath)
             ELSE JSONparse(fs.backupPath) IN
    IF ~p.ok THEN Loaded(None, StorageError(MsgCorrupted))
    ELSE IF PropertyThrows(p.v)
         THEN Loaded(None, StorageError(MsgLoadFailed))
    ELSE IF ~ArrayIsArray(GetTasks(p.v)) \/ TypeOf(GetNextId(p.v)) # "number"
         THEN Loaded(None, StorageError(MsgFormatInvalid))
    ELSE Loaded(Some(TaskDatabase(GetTasks(p.v).items, GetNextId(p.v))),
                NoError)

\* Mutant of load: a file that is not JSON is reported with a fault of
\* its own kind.
load_ThrowsCorruptionError(fs, io) ==
  IF ~exists(fs) THEN Loaded(Some(EmptyDatabase), NoError)
  ELSE IF io.read = "fail" THEN Loaded(None, StorageError(MsgLoadFailed))
  ELSE
    LET p == JSONparse(fs.filePath) IN
    IF ~p.ok
    THEN Loaded(None, [name |-> "CorruptionError", msg |-> MsgCorrupted])
    ELSE IF PropertyThrows(p.v)
         THEN Loaded(None, StorageError(MsgLoadFailed))
    ELSE IF ~ArrayIsArray(GetTasks(p.v)) \/ TypeOf(GetNextId(p.v)) # "number"
         THEN Loaded(None, StorageError(MsgFormatInvalid))
    ELSE Loaded(Some(TaskDatabase(GetTasks(p.v).items, GetNextId(p.v))),
                NoError)

\* Mutant of load: a file that is not JSON is taken for an empty database.
load_TakesCorruptForEmpty(fs, io) ==
  IF ~exists(fs) THEN Loaded(Some(EmptyDatabase), NoError)
  ELSE IF io.read = "fail" THEN Loaded(None, StorageError(MsgLoadFailed))
  ELSE
    LET p == JSONparse(fs.filePath) IN
    IF ~p.ok THEN Loaded(Some(EmptyDatabase), NoError)
    ELSE IF PropertyThrows(p.v)
         THEN Loaded(None, StorageError(MsgLoadFailed))
    ELSE IF ~ArrayIsArray(GetTasks(p.v)) \/ TypeOf(GetNextId(p.v)) # "number"
         THEN Loaded(None, StorageError(MsgFormatInvalid))
    ELSE Loaded(Some(TaskDatabase(GetTasks(p.v).items, GetNextId(p.v))),
                NoError)

load(fs, io) ==
  IF ~exists(fs) THEN Loaded(Some(EmptyDatabase), NoError)
  ELSE IF io.read = "fail" THEN Loaded(None, StorageError(MsgLoadFailed))
  ELSE
    LET p == JSONparse(fs.filePath) IN
    IF ~p.ok THEN Loaded(None, StorageError(MsgCorrupted))
    ELSE IF PropertyThrows(p.v)
         THEN Loaded(None, StorageError(MsgLoadFailed))
    ELSE IF ~ArrayIsArray(GetTasks(p.v)) \/ TypeOf(GetNextId(p.v)) # "number"
         THEN Loaded(None, StorageError(MsgFormatInvalid))
    ELSE Loaded(Some(TaskDatabase(GetTasks(p.v).items, GetNextId(p.v))),
                NoError)

(***************************************************************************)
(* TaskService                                                             *)
(***************************************************************************)
Statuses == {"open", "in_progress", "completed", "archived"}

Task(id, title, description, status, branch, createdAt, updatedAt) ==
  [id |-> id, title |-> title, description |-> description,
   status |-> status, branch |-> branch,
   createdAt |-> createdAt, updatedAt |-> updatedAt]

CreateTaskInput(title, description) ==
  [title |-> title, description |-> description]
UpdateTaskInput(title, description, status, branch) ==
  [title |-> title, description |-> description, status |-> status,
   branch |-> branch]
ListOptions(status, includeArchived) ==
  [status |-> status, includeArchived |-> includeArchived]

Result(fs, error, ret, list, events) ==
  [fs |-> fs, error |-> error, ret |-> ret, list |-> list,
   events |-> events]
Throw(fs, error) == Result(fs, error, None, <<>>, <<>>)

\* tasks.findIndex((t) => t.id === id), 0 standing for -1
RECURSIVE findIndexFrom(_, _, _)
findIndexFrom(tasks, id, i) ==
  IF i > Len(tasks) THEN 0
  ELSE IF tasks[i].id = id THEN i
  ELSE findIndexFrom(tasks, id, i + 1)
findIndex(tasks, id) == findIndexFrom(tasks, id, 1)

\* Mutant of splice: tasks.splice(index), which removes up to the end.
splice_ToEnd(tasks, index) == SubSeq(tasks, 1, index - 1)

\* tasks.splice(index, 1)
splice(tasks, index) ==
  SubSeq(tasks, 1, index - 1) \o SubSeq(tasks, index + 1, Len(tasks))

\* tasks.sort((a, b) => a.id - b.id), a stable sort
RECURSIVE insertById(_, _)
insertById(sorted, task) ==
  IF sorted = <<>> THEN <<task>>
  ELSE IF sorted[Len(sorted)].id <= task.id THEN Append(sorted, task)
  ELSE Append(insertById(SubSeq(sorted, 1, Len(sorted) - 1), task),
              sorted[Len(sorted)])
RECURSIVE sortById(_)
sortById(tasks) ==
  IF tasks = <<>> THEN <<>>
  ELSE insertById(sortById(SubSeq(tasks, 1, Len(tasks) - 1)),
                  tasks[Len(tasks)])

\* Mutant of validateTitle: the length limit is applied to the trimmed title.
validateTitle_LimitsTrimmedLength(title) ==
  IF title = <<>> \/ Len(Trim(title)) = 0
  THEN ValidationError(MsgTitleRequired)
  ELSE IF Len(Trim(title)) > MaxTitleLength
       THEN ValidationError(MsgTitleTooLong)
       ELSE NoError

\* The title checks shared by createTask and updateTask.
validateTitle(title) ==
  IF title = <<>> \/ Len(Trim(title)) = 0
  THEN ValidationError(MsgTitleRequired)
  ELSE IF Len(title) > MaxTitleLength
       THEN ValidationError(MsgTitleTooLong)
       ELSE NoError

\* Mutant of createTask: the id is taken from the number of stored tasks.
createTask_IdFromTaskCount(fs, input, now, io) ==
  IF validateTitle(input.title) # NoError
  THEN Throw(fs, validateTitle(input.title))
  ELSE
    LET l == load(fs, io) IN
    IF l.error # NoError THEN Throw(fs, l.error)
    ELSE
      LET db == l.db[1]
          task == Task(Len(db.tasks) + 1, Trim(input.title),
                       TrimOrUndefined(input.description), "open", None,
                       now, now)
          s == save(fs, TaskDatabase(Append(db.tasks, task),
                                     Increment(db.nextId)), io)
      IN IF s.error # NoError
         THEN Result(s.fs, s.error, None, <<>>, s.events)
         ELSE Result(s.fs, NoError, Some(task), <<>>, s.events)

\* Mutant of createTask: the title is stored as it was given.
createTask_StoresRawTitle(fs, input, now, io) ==
  IF validateTitle(input.title) # NoError
  THEN Throw(fs, validateTitle(input.title))
  ELSE
    LET l == load(fs, io) IN
    IF l.error # NoError THEN Throw(fs, l.error)
    ELSE
      LET db == l.db[1]
          task == Task(db.nextId.v, input.title,
                       TrimOrUndefined(input.description), "open", None,
                       now, now)
          s == save(fs, TaskDatabase(Append(db.tasks, task),
                                     Increment(db.nextId)), io)
      IN IF s.error # NoError
         THEN Result(s.fs, s.error, None, <<>>, s.events)
         ELSE Result(s.fs, NoError, Some(task), <<>>, s.events)

\* Mutant of createTask: the store is loaded before the title is checked.
createTask_LoadsBeforeValidation(fs, input, now, io) ==
  LET l == load(fs, io) IN
  IF l.error # NoError THEN Throw(fs, l.error)
  ELSE IF validateTitle(input.title) # NoError
       THEN Throw(fs, validateTitle(input.title))
  ELSE
    LET db == l.db[1]
        task == Task(db.nextId.v, Trim(input.title),
                     TrimOrUndefined(input.description), "open", None,
                     now, now)
        s == save(fs, TaskDatabase(Append(db.tasks, task),
                                   Increment(db.nextId)), io)
    IN IF s.error # NoError
       THEN Result(s.fs, s.error, None, <<>>, s.events)
       ELSE Result(s.fs, NoError, Some(task), <<>>, s.events)

createTask(fs, input, now, io) ==
  IF validateTitle(input.title) # NoError
  THEN Throw(fs, validateTitle(input.title))
  ELSE
    LET l == load(fs, io) IN
    IF l.error # NoError THEN Throw(fs, l.error)
    ELSE
      LET db == l.db[1]
          task == Task(db.nextId.v, Trim(input.title),
                       TrimOrUndefined(input.description), "open", None,
                       now, now)
          s == save(fs, TaskDatabase(Append(db.tasks, task),
                                     Increment(db.nextId)), io)
      IN IF s.error # NoError
         THEN Result(s.fs, s.error, None, <<>>, s.events)
         ELSE Result(s.fs, NoError, Some(task), <<>>, s.events)

\* Mutant of listTasks: archived tasks are left out only when no status is
\* asked for.
listTasks_StatusOverridesArchived(fs, options, io) ==
  LET l == load(fs, io) IN
  IF l.error # NoError THEN Throw(fs, l.error)
  ELSE
    LET hasStatus(t) == t.status = options.status[1]
        notArchived(t) == t.status # "archived"
        visible == IF options.status # None
                   THEN SelectSeq(l.db[1].tasks, hasStatus)
                   ELSE IF ~options.includeArchived
                        THEN SelectSeq(l.db[1].tasks, notArchived)
                        ELSE l.db[1].tasks
    IN Result(fs, NoError, None, sortById(visible), <<>>)

listTasks(fs, options, io) ==
  LET l == load(fs, io) IN
  IF l.error # NoError THEN Throw(fs, l.error)
  ELSE
    LET hasStatus(t) == t.status = options.status[1]
        notArchived(t) == t.status # "archived"
        byStatus == IF options.status # None
                    THEN SelectSeq(l.db[1].tasks, hasStatus)
                    ELSE l.db[1].tasks
        visible == IF ~options.includeArchived
                   THEN SelectSeq(byStatus, notArchived)
                   ELSE byStatus
    IN Result(fs, NoError, None, sortById(visible), <<>>)

getTask(fs, id, io) ==
  LET l == load(fs, io) IN
  IF l.error # NoError THEN Throw(fs, l.error)
  ELSE
    LET i == findIndex(l.db[1].tasks, id) IN
    IF i = 0 THEN Throw(fs, TaskNotFoundError)
    ELSE Result(fs, NoError, Some(l.db[1].tasks[i]), <<>>, <<>>)

\* Mutant of updateTask: the other fields are saved before the title is
\* checked.
updateTask_SavesBeforeValidation(fs, id, input, now, io) ==
  LET l == load(fs, io) IN
  IF l.error # NoError THEN Throw(fs, l.error)
  ELSE
    LET db == l.db[1]
        taskIndex == findIndex(db.tasks, id)
    IN
    IF taskIndex = 0 THEN Throw(fs, TaskNotFoundError)
    ELSE
      LET old == db.tasks[taskIndex]
          valid == \/ input.title = None
                   \/ validateTitle(input.title[1]) = NoError
          task == [old EXCEPT
                     !.title = IF input.title # None /\ valid
                               THEN Trim(input.title[1]) ELSE @,
                     !.description = IF input.description # None
                                     THEN TrimOrUndefined(input.description)
                                     ELSE @,
                     !.status = IF input.status # None
                                THEN input.status[1] ELSE @,
                     !.branch = IF input.branch # None
                                THEN input.branch ELSE @,
                     !.updatedAt = now]
          s == save(fs, [db EXCEPT !.tasks[taskIndex] = task], io)
      IN IF s.error # NoError
         THEN Result(s.fs, s.error, None, <<>>, s.events)
         ELSE IF ~valid
              THEN Result(s.fs, validateTitle(input.title[1]), None, <<>>,
                          <<>>)
              ELSE Result(s.fs, NoError, Some(task), <<>>, s.events)

\* Mutant of updateTask: the input replaces the task's optional fields,
\* so that an omitted description or branch is cleared.
updateTask_ReplacesOptionalFields(fs, id, input, now, io) ==
  LET l == load(fs, io) IN
  IF l.error # NoError THEN Throw(fs, l.error)
  ELSE
    LET db == l.db[1]
        taskIndex == findIndex(db.tasks, id)
    IN
    IF taskIndex = 0 THEN Throw(fs, TaskNotFoundError)
    ELSE IF input.title # None /\ validateTitle(input.title[1]) # NoError
         THEN Throw(fs, validateTitle(input.title[1]))
    ELSE
      LET old == db.tasks[taskIndex]
          task == [old EXCEPT
                     !.title = IF input.title # None
                               THEN Trim(input.title[1]) ELSE @,
                     !.description = TrimOrUndefined(input.description),
                     !.status = IF input.status # None
                                THEN input.status[1] ELSE @,
                     !.branch = input.branch,
                     !.updatedAt = now]
          s == save(fs, [db EXCEPT !.tasks[taskIndex] = task], io)
      IN IF s.error # NoError
         THEN Result(s.fs, s.error, None, <<>>, s.events)
         ELSE Result(s.fs, NoError, Some(task), <<>>, s.events)

\* Mutant of updateTask: an input that supplies no field is not saved.
updateTask_SkipsEmptyInput(fs, id, input, now, io) ==
  LET l == load(fs, io) IN
  IF l.error # NoError THEN Throw(fs, l.error)
  ELSE
    LET db == l.db[1]
        taskIndex == findIndex(db.tasks, id)
    IN
    IF taskIndex = 0 THEN Throw(fs, TaskNotFoundError)
    ELSE IF input.title # None /\ validateTitle(input.title[1]) # NoError
         THEN Throw(fs, validateTitle(input.title[1]))
    ELSE IF input.title = None /\ input.description = None
            /\ input.status = None /\ input.branch = None
         THEN Result(fs, NoError, Some(db.tasks[taskIndex]), <<>>, <<>>)
    ELSE
      LET old == db.tasks[taskIndex]
          task == [old EXCEPT
                     !.title = IF input.title # None
                               THEN Trim(input.title[1]) ELSE @,
                     !.description = IF input.description # None
                                     THEN TrimOrUndefined(input.description)
                                     ELSE @,
                     !.status = IF input.status # None
                                THEN input.status[1] ELSE @,
                     !.branch = IF input.branch # None
                                THEN input.branch ELSE @,
                     !.updatedAt = now]
          s == save(fs, [db EXCEPT !.tasks[taskIndex] = task], io)
      IN IF s.error # NoError
         THEN Result(s.fs, s.error, None, <<>>, s.events)
         ELSE Result(s.fs, NoError, Some(task), <<>>, s.events)

\* Mutant of updateTask: a branch in the input is not stored.
updateTask_IgnoresBranch(fs, id, input, now, io) ==
  LET l == load(fs, io) IN
  IF l.error # NoError THEN Throw(fs, l.error)
  ELSE
    LET db == l.db[1]
        taskIndex == findIndex(db.tasks, id)
    IN
    IF taskIndex = 0 THEN Throw(fs, TaskNotFoundError)
    ELSE IF input.title # None /\ validateTitle(input.title[1]) # NoError
         THEN Throw(fs, validateTitle(input.title[1]))
    ELSE
      LET old == db.tasks[taskIndex]
          task == [old EXCEPT
                     !.title = IF input.title # None
                               THEN Trim(input.title[1]) ELSE @,
                     !.description = IF input.description # None
                                     THEN TrimOrUndefined(input.description)
                                     ELSE @,
                     !.status = IF input.status # None
                                THEN input.status[1] ELSE @,
                     !.updatedAt = now]
          s == save(fs, [db EXCEPT !.tasks[taskIndex] = task], io)
      IN IF s.error # NoError
         THEN Result(s.fs, s.error, None, <<>>, s.events)
         ELSE Result(s.fs, NoError, Some(task), <<>>, s.events)

\* Mutant of updateTask: a title in the input is stored without being
\* checked.
updateTask_SkipsTitleValidation(fs, id, input, now, io) ==
  LET l == load(fs, io) IN
  IF l.error # NoError THEN Throw(fs, l.error)
  ELSE
    LET db == l.db[1]
        taskIndex == findIndex(db.tasks, id)
    IN
    IF taskIndex = 0 THEN Throw(fs, TaskNotFoundError)
    ELSE
      LET old == db.tasks[taskIndex]
          task == [old EXCEPT
                     !.title = IF input.title # None
                               THEN Trim(input.title[1]) ELSE @,
                     !.description = IF input.description # None
                                     THEN TrimOrUndefined(input.description)
                                     ELSE @,
                     !.status = IF input.status # None
                                THEN input.status[1] ELSE @,
                     !.branch = IF input.branch # None
                                THEN input.branch ELSE @,
                     !.updatedAt = now]
          s == save(fs, [db EXCEPT !.tasks[taskIndex] = task], io)
      IN IF s.error # NoError
         THEN Result(s.fs, s.error, None, <<>>, s.events)
         ELSE Result(s.fs, NoError, Some(task), <<>>, s.events)

\* Mutant of updateTask: createdAt is refreshed with updatedAt.
updateTask_RefreshesCreatedAt(fs, id, input, now, io) ==
  LET l == load(fs, io) IN
  IF l.error # NoError THEN Throw(fs, l.error)
  ELSE
    LET db == l.db[1]
        taskIndex == findIndex(db.tasks, id)
    IN
    IF taskIndex = 0 THEN Throw(fs, TaskNotFoundError)
    ELSE IF input.title # None /\ validateTitle(input.title[1]) # NoError
         THEN Throw(fs, validateTitle(input.title[1]))
    ELSE
      LET old == db.tasks[taskIndex]
          task == [old EXCEPT
                     !.title = IF input.title # None
                               THEN Trim(input.title[1]) ELSE @,
                     !.description = IF input.description # None
                                     THEN TrimOrUndefined(input.description)
                                     ELSE @,
                     !.status = IF input.status # None
                                THEN input.status[1] ELSE @,
                     !.branch = IF input.branch # None
                                THEN input.branch ELSE @,
                     !.createdAt = now,
                     !.updatedAt = now]
          s == save(fs, [db EXCEPT !.tasks[taskIndex] = task], io)
      IN IF s.error # NoError
         THEN Result(s.fs, s.error, None, <<>>, s.events)
         ELSE Result(s.fs, NoError, Some(task), <<>>, s.events)

updateTask(fs, id, input, now, io) ==
  LET l == load(fs, io) IN
  IF l.error # NoError THEN Throw(fs, l.error)
  ELSE
    LET db == l.db[1]
        taskIndex == findIndex(db.tasks, id)
    IN
    IF taskIndex = 0 THEN Throw(fs, TaskNotFoundError)
    ELSE IF input.title # None /\ validateTitle(input.title[1]) # NoError
         THEN Throw(fs, validateTitle(input.title[1]))
    ELSE
      LET old == db.tasks[taskIndex]
          task == [old EXCEPT
                     !.title = IF input.title # None
                               THEN Trim(input.title[1]) ELSE @,
                     !.description = IF input.description # None
                                     THEN TrimOrUndefined(input.description)
                                     ELSE @,
                     !.status = IF input.status # None
                                THEN input.status[1] ELSE @,
                     !.branch = IF input.branch # None
                                THEN input.branch ELSE @,
                     !.updatedAt = now]
          s == save(fs, [db EXCEPT !.tasks[taskIndex] = task], io)
      IN IF s.error # NoError
         THEN Result(s.fs, s.error, None, <<>>, s.events)
         ELSE Result(s.fs, NoError, Some(task), <<>>, s.events)

\* Mutant of changeStatus: only the next status of the life cycle is
\* accepted; any other target leaves the status as it is.
changeStatus_OnlyNextStatus(fs, id, status, now, io) ==
  LET found == getTask(fs, id, io)
      next == [open |-> "in_progress", in_progress |-> "completed",
               completed |-> "archived", archived |-> "archived"]
  IN IF found.error = NoError /\ next[found.ret[1].status] # status
     THEN updateTask(fs, id, UpdateTaskInput(None, None, None, None), now,
                     io)
     ELSE updateTask(fs, id, UpdateTaskInput(None, None, Some(status), None),
                     now, io)

changeStatus(fs, id, status, now, io) ==
  updateTask(fs, id, UpdateTaskInput(None, None, Some(status), None), now, io)

\* Mutant of deleteTask: the id of the removed task becomes the next id.
deleteTask_ReleasesId(fs, id, io) ==
  LET l == load(fs, io) IN
  IF l.error # NoError THEN Throw(fs, l.error)
  ELSE
    LET db == l.db[1]
        taskIndex == findIndex(db.tasks, id)
    IN
    IF taskIndex = 0 THEN Throw(fs, TaskNotFoundError)
    ELSE
      LET s == save(fs, TaskDatabase(splice(db.tasks, taskIndex),
                                     JNumber(id)), io)
      IN Result(s.fs, s.error, None, <<>>, s.events)

\* Mutant of deleteTask: the index is not checked, and splice(-1, 1)
\* removes the last task.
deleteTask_WithoutFoundCheck(fs, id, io) ==
  LET l == load(fs, io) IN
  IF l.error # NoError THEN Throw(fs, l.error)
  ELSE
    LET db == l.db[1]
        taskIndex == findIndex(db.tasks, id)
        index == IF taskIndex = 0 THEN Len(db.tasks) ELSE taskIndex
        s == save(fs, [db EXCEPT !.tasks = splice(db.tasks, index)], io)
    IN Result(s.fs, s.error, None, <<>>, s.events)

deleteTask(fs, id, io) ==
  LET l == load(fs, io) IN
  IF l.error # NoError THEN Throw(fs, l.error)
  ELSE
    LET db == l.db[1]
        taskIndex == findIndex(db.tasks, id)
    IN
    IF taskIndex = 0 THEN Throw(fs, TaskNotFoundError)
    ELSE
      LET s == save(fs, [db EXCEPT !.tasks = splice(db.tasks, taskIndex)],
                    io)
      IN Result(s.fs, s.error, None, <<>>, s.events)

\* Mutant of archiveTask: the branch of the task is emptied as well.
archiveTask_EmptiesBranch(fs, id, now, io) ==
  updateTask(fs, id,
             UpdateTaskInput(None, None, Some("archived"), Some(<<>>)),
             now, io)

archiveTask(fs, id, now, io) == changeStatus(fs, id, "archived", now, io)

(***************************************************************************)
(* StringUtils and the branch name of GitService.  A character is a string *)
(* that names one UTF-16 code unit: an ASCII character stands for itself,  *)
(* any other one is named by its code point.                               *)
(***************************************************************************)
MaxSlugLength == 50
Untitled == <<"u", "n", "t", "i", "t", "l", "e", "d">>
BranchPrefix ==
  <<"f", "e", "a", "t", "u", "r", "e", "/", "t", "a", "s", "k", "-">>

LowerLetters ==
  <<"a", "b", "c", "d", "e", "f", "g", "h", "i", "j", "k", "l", "m",
    "n", "o", "p", "q", "r", "s", "t", "u", "v", "w", "x", "y", "z">>
UpperLetters ==
  <<"A", "B", "C", "D", "E", "F", "G", "H", "I", "J", "K", "L", "M",
    "N", "O", "P", "Q", "R", "S", "T", "U", "V", "W", "X", "Y", "Z">>
Digits == <<"0", "1", "2", "3", "4", "5", "6", "7", "8", "9">>
Range(s) == { s[i] : i \in DOMAIN s }

\* KATAKANA LETTER YU, which has no lowercase form, and KELVIN SIGN, whose
\* lowercase form is the ASCII letter k.
KatakanaYu == "U+30E6"
KelvinSign == "U+212A"

\* String.prototype.toLowerCase, one character at a time
ToLowerCaseChar(c) ==
  IF c \in Range(UpperLetters)
  THEN LowerLetters[CHOOSE i \in DOMAIN UpperLetters : UpperLetters[i] = c]
  ELSE IF c = KelvinSign THEN "k" ELSE c
toLowerCase(s) == [i \in DOMAIN s |-> ToLowerCaseChar(s[i])]

\* replace(/\s+/g, '-')
RECURSIVE ReplaceWhiteSpaceRuns(_)
ReplaceWhiteSpaceRuns(s) ==
  IF s = <<>> THEN <<>>
  ELSE IF Head(s) \in WhiteSpace
       THEN <<"-">> \o ReplaceWhiteSpaceRuns(TrimStart(s))
       ELSE <<Head(s)>> \o ReplaceWhiteSpaceRuns(Tail(s))

\* Mutant of RemoveOtherChars: no character is removed.
RemoveOtherChars_KeepsAll(s) == s

\* replace(/[^a-z0-9-]/g, '')
SlugChars == Range(LowerLetters) \cup Range(Digits) \cup {"-"}
IsSlugChar(c) == c \in SlugChars
RemoveOtherChars(s) == SelectSeq(s, IsSlugChar)

\* replace(/-+/g, '-')
RECURSIVE CollapseHyphens(_)
CollapseHyphens(s) ==
  IF Len(s) < 2 THEN s
  ELSE IF s[1] = "-" /\ s[2] = "-" THEN CollapseHyphens(Tail(s))
       ELSE <<Head(s)>> \o CollapseHyphens(Tail(s))

\* replace(/^-+|-+$/g, '')
RECURSIVE StripLeadingHyphens(_)
StripLeadingHyphens(s) ==
  IF s # <<>> /\ Head(s) = "-" THEN StripLeadingHyphens(Tail(s)) ELSE s
RECURSIVE StripTrailingHyphens(_)
StripTrailingHyphens(s) ==
  IF s # <<>> /\ s[Len(s)] = "-"
  THEN StripTrailingHyphens(SubSeq(s, 1, Len(s) - 1))
  ELSE s
StripHyphens(s) == StripTrailingHyphens(StripLeadingHyphens(s))

\* Mutant of substring: nothing is cut off.
substring_KeepsAll(s, n) == s

\* substring(0, n)
substring(s, n) == SubSeq(s, 1, IF Len(s) < n THEN Len(s) ELSE n)

\* Mutant of sanitizeForBranchName: hyphens are not stripped again after
\* the truncation.
sanitizeForBranchName_StripsOnce(text) ==
  IF text = <<>> \/ Len(Trim(text)) = 0 THEN Untitled
  ELSE
    LET sanitized ==
          substring(
            StripHyphens(
              CollapseHyphens(
                RemoveOtherChars(
                  ReplaceWhiteSpaceRuns(toLowerCase(text))))),
            MaxSlugLength)
    IN IF sanitized = <<>> THEN Untitled ELSE sanitized

sanitizeForBranchName(text) ==
  IF text = <<>> \/ Len(Trim(text)) = 0 THEN Untitled
  ELSE
    LET sanitized ==
          StripHyphens(
            substring(
              StripHyphens(
                CollapseHyphens(
                  RemoveOtherChars(
                    ReplaceWhiteSpaceRuns(toLowerCase(text))))),
              MaxSlugLength))
    IN IF sanitized = <<>> THEN Untitled ELSE sanitized

\* Mutant of NumberToString: only the last digit is written.
NumberToString_LastDigit(n) == <<Digits[(n % 10) + 1]>>

\* `${taskId}`: the decimal digits of a number that is not negative
RECURSIVE NumberToString(_)
NumberToString(n) ==
  IF n < 10 THEN <<Digits[n + 1]>>
  ELSE Append(NumberToString(n \div 10), Digits[(n % 10) + 1])

\* Mutant of generateBranchName: no hyphen between the id and the slug.
generateBranchName_WithoutHyphen(taskId, taskTitle) ==
  BranchPrefix \o NumberToString(taskId)
    \o sanitizeForBranchName(taskTitle)

generateBranchName(taskId, taskTitle) ==
  BranchPrefix \o NumberToString(taskId) \o <<"-">>
    \o sanitizeForBranchName(taskTitle)

(***************************************************************************)
(* GitService and the commands of the CLI.  The repository is outside the  *)
(* program: what its calls answer is drawn from the input record git.  The *)
(* calls made on it are recorded with the file-system calls.               *)
(***************************************************************************)
GitError(msg) == [name |-> "GitError", msg |-> msg]

MsgNoRepository == "git_repository_not_found"
MsgBranchCheckFailed == "branch_check_failed"
MsgBranchCreateFailed == "branch_create_failed"
MsgCheckoutFailed == "branch_checkout_failed"
MsgIdNotPositive == "task_id_must_be_positive_integer"

\* repo: git.status() succeeds; branchLocal: the outcome of listing the
\* branches; listed: the branch asked for is among them; checkout: the outcome
\* of git.checkout or git.checkoutBranch.
Git(repo, branchLocal, listed, checkout) ==
  [repo |-> repo, branchLocal |-> branchLocal, listed |-> listed,
   checkout |-> checkout]

isGitRepository(git) == git.repo

\* parseInt(idString, 10): white space is skipped, then a sign and the
\* longest run of decimal digits are read; NaN when there is no digit.
ParseIntDigits(s) ==
  LET stop == { i \in DOMAIN s : s[i] \notin Range(Digits) }
  IN IF stop = {} THEN s
     ELSE SubSeq(s, 1, (CHOOSE i \in stop : \A j \in stop : i <= j) - 1)
RECURSIVE DigitsValue(_)
DigitsValue(d) ==
  IF d = <<>> THEN 0
  ELSE 10 * DigitsValue(SubSeq(d, 1, Len(d) - 1))
         + (CHOOSE i \in DOMAIN Digits : Digits[i] = d[Len(d)]) - 1
parseInt(idString) ==
  LET s == TrimStart(idString)
      signed == s # <<>> /\ Head(s) \in {"+", "-"}
      d == ParseIntDigits(IF signed THEN Tail(s) ELSE s)
  IN IF d = <<>> THEN NaN
     ELSE JNumber(IF signed /\ Head(s) = "-" THEN 0 - DigitsValue(d)
                  ELSE DigitsValue(d))

parseTaskId(idString) ==
  LET id == parseInt(idString)
  IN IF ~IsFinite(id) \/ id.v <= 0
     THEN [error |-> ValidationError(MsgIdNotPositive), id |-> 0]
     ELSE [error |-> NoError, id |-> id.v]

addCommand(fs, title, now, io) ==
  createTask(fs, CreateTaskInput(title, None), now, io)

\* Mutant of startCommand: the task is updated before the repository is
\* looked at.
startCommand_UpdatesBeforeRepositoryCheck(fs, idString, git, now, io) ==
  LET p == parseTaskId(idString) IN
  IF p.error # NoError THEN Throw(fs, p.error)
  ELSE
    LET found == getTask(fs, p.id, io) IN
    IF found.error # NoError THEN Throw(fs, found.error)
    ELSE
      LET task == found.ret[1]
          u == updateTask(fs, p.id,
                          UpdateTaskInput(None, None, Some("in_progress"),
                                          Some(generateBranchName(
                                                 task.id, task.title))),
                          now, io)
      IN IF ~isGitRepository(git)
         THEN Result(u.fs, GitError(MsgNoRepository), None, <<>>,
                     <<"status_failed">>)
         ELSE Result(u.fs, u.error, u.ret, <<>>,
                     <<"status", "branchLocal", "checkoutBranch",
                       "updateTask">> \o u.events)

\* Mutant of startCommand: the branch is created whether it exists or not.
startCommand_AlwaysCreatesBranch(fs, idString, git, now, io) ==
  LET p == parseTaskId(idString) IN
  IF p.error # NoError THEN Throw(fs, p.error)
  ELSE
    LET found == getTask(fs, p.id, io) IN
    IF found.error # NoError THEN Throw(fs, found.error)
    ELSE IF ~isGitRepository(git)
         THEN Result(fs, GitError(MsgNoRepository), None, <<>>,
                     <<"status_failed">>)
    ELSE
      LET task == found.ret[1]
          branchName == generateBranchName(task.id, task.title)
      IN
      IF git.branchLocal = "fail"
      THEN Result(fs, GitError(MsgBranchCheckFailed), None, <<>>,
                  <<"status", "branchLocal_failed">>)
      ELSE IF git.checkout = "fail"
           THEN Result(fs, GitError(MsgBranchCreateFailed), None, <<>>,
                       <<"status", "branchLocal", "checkoutBranch_failed">>)
      ELSE
        LET u == updateTask(fs, p.id,
                            UpdateTaskInput(None, None, Some("in_progress"),
                                            Some(branchName)),
                            now, io)
        IN Result(u.fs, u.error, u.ret, <<>>,
                  <<"status", "branchLocal", "checkoutBranch",
                    "updateTask">> \o u.events)

\* Mutant of startCommand: the task is updated once the branches are
\* listed, before the branch is checked out or created.
startCommand_UpdatesBeforeCheckout(fs, idString, git, now, io) ==
  LET p == parseTaskId(idString) IN
  IF p.error # NoError THEN Throw(fs, p.error)
  ELSE
    LET found == getTask(fs, p.id, io) IN
    IF found.error # NoError THEN Throw(fs, found.error)
    ELSE IF ~isGitRepository(git)
         THEN Result(fs, GitError(MsgNoRepository), None, <<>>,
                     <<"status_failed">>)
    ELSE
      LET task == found.ret[1]
          branchName == generateBranchName(task.id, task.title)
          u == updateTask(fs, p.id,
                          UpdateTaskInput(None, None, Some("in_progress"),
                                          Some(branchName)),
                          now, io)
      IN
      IF git.branchLocal = "fail"
      THEN Result(fs, GitError(MsgBranchCheckFailed), None, <<>>,
                  <<"status", "branchLocal_failed">>)
      ELSE IF git.listed /\ git.checkout = "fail"
           THEN Result(u.fs, GitError(MsgCheckoutFailed), None, <<>>,
                       <<"status", "branchLocal", "updateTask">>
                         \o u.events \o <<"checkout_failed">>)
      ELSE IF ~git.listed /\ git.checkout = "fail"
           THEN Result(u.fs, GitError(MsgBranchCreateFailed), None, <<>>,
                       <<"status", "branchLocal", "updateTask">>
                         \o u.events \o <<"checkoutBranch_failed">>)
      ELSE
        Result(u.fs, u.error, u.ret, <<>>,
               <<"status", "branchLocal", "updateTask">> \o u.events
                 \o <<IF git.listed THEN "checkout" ELSE "checkoutBranch">>)

startCommand(fs, idString, git, now, io) ==
  LET p == parseTaskId(idString) IN
  IF p.error # NoError THEN Throw(fs, p.error)
  ELSE
    LET found == getTask(fs, p.id, io) IN
    IF found.error # NoError THEN Throw(fs, found.error)
    ELSE IF ~isGitRepository(git)
         THEN Result(fs, GitError(MsgNoRepository), None, <<>>,
                     <<"status_failed">>)
    ELSE
      LET task == found.ret[1]
          branchName == generateBranchName(task.id, task.title)
      IN
      IF git.branchLocal = "fail"
      THEN Result(fs, GitError(MsgBranchCheckFailed), None, <<>>,
                  <<"status", "branchLocal_failed">>)
      ELSE IF git.listed /\ git.checkout = "fail"
           THEN Result(fs, GitError(MsgCheckoutFailed), None, <<>>,
                       <<"status", "branchLocal", "checkout_failed">>)
      ELSE IF ~git.listed /\ git.checkout = "fail"
           THEN Result(fs, GitError(MsgBranchCreateFailed), None, <<>>,
                       <<"status", "branchLocal", "checkoutBranch_failed">>)
      ELSE
        LET calls == <<"status", "branchLocal",
                       IF git.listed THEN "checkout" ELSE "checkoutBranch">>
            u == updateTask(fs, p.id,
                            UpdateTaskInput(None, None, Some("in_progress"),
                                            Some(branchName)),
                            now, io)
        IN Result(u.fs, u.error, u.ret, <<>>, calls \o <<"updateTask">>
                                                \o u.events)

doneCommand(fs, idString, now, io) ==
  LET p == parseTaskId(idString) IN
  IF p.error # NoError THEN Throw(fs, p.error)
  ELSE changeStatus(fs, p.id, "completed", now, io)

\* confirmed: what confirmDeletion answers.
deleteCommand(fs, idString, confirmed, io) ==
  LET p == parseTaskId(idString) IN
  IF p.error # NoError THEN Throw(fs, p.error)
  ELSE
    LET found == getTask(fs, p.id, io) IN
    IF found.error # NoError THEN Throw(fs, found.error)
    ELSE IF ~confirmed THEN Throw(fs, NoError)
    ELSE deleteTask(fs, p.id, io)

archiveCommand(fs, idString, now, io) ==
  LET p == parseTaskId(idString) IN
  IF p.error # NoError THEN Throw(fs, p.error)
  ELSE changeStatus(fs, p.id, "archived", now, io)

(***************************************************************************)
(* Inputs of the operations.                                               *)
(***************************************************************************)
TitleInputs == {<<>>, <<" ", "a", " ">>}
DescriptionInputs == {Some(<<" ">>)}
TaskIds == 1..(MaxCreates + 1)
UpdateInputs == {UpdateTaskInput(None, Some(<<" ">>), None, None)}
StatusInputs == {"completed"}
ListInputs == {ListOptions(None, FALSE), ListOptions(Some("archived"), TRUE)}

(***************************************************************************)
(* The state machine.  last records the latest call: its arguments, what   *)
(* it returned or threw, the file-system calls it made, and the disk as it *)
(* was before the call.  created lists the ids returned by createTask and  *)
(* deleted the ids removed by deleteTask.  clock is what new Date() reads. *)
(* inflight holds the invocations that run at the same time in separate    *)
(* processes, when there are any.                                          *)
(***************************************************************************)
Fs == Disk(dataDir, filePath, backupPath)

Call(op, id, input, now, r, db, flag) ==
  [op |-> op, id |-> id, input |-> input, now |-> now, error |-> r.error,
   ret |-> r.ret, list |-> r.list, events |-> r.events, db |-> db,
   flag |-> flag, pre |-> Fs]

Commit(fs, call) ==
  /\ dataDir' = fs.dataDir
  /\ filePath' = fs.filePath
  /\ backupPath' = fs.backupPath
  /\ last' = call
  /\ UNCHANGED inflight

\* No invocation of the program is under way in another process.
NoInvocation == <<>>

NoCall ==
  Call("none", 0, None, 0, Throw(Disk(FALSE, Absent, Absent), NoError),
       None, FALSE)

Init ==
  /\ dataDir = FALSE
  /\ filePath = Absent
  /\ backupPath = Absent
  /\ clock = 0
  /\ created = <<>>
  /\ deleted = {}
  /\ last = [NoCall EXCEPT !.pre = Disk(FALSE, Absent, Absent)]
  /\ inflight = NoInvocation

CreateTaskFrom(titles) ==
  /\ Len(created) < MaxCreates
  /\ \E title \in titles, description \in DescriptionInputs,
        io \in IoOutcomes :
       LET input == CreateTaskInput(title, description)
           r == createTask(Fs, input, clock, io)
       IN /\ Commit(r.fs, Call("createTask", 0, input, clock, r, None,
                               FALSE))
          /\ created' = IF r.error = NoError
                        THEN Append(created, r.ret[1].id)
                        ELSE created
  /\ UNCHANGED <<clock, deleted>>

CreateTask == CreateTaskFrom(TitleInputs)

ListTasks ==
  /\ \E options \in ListInputs, io \in ReadOutcomes :
       LET r == listTasks(Fs, options, io)
       IN Commit(r.fs, Call("listTasks", 0, options, clock, r, None, FALSE))
  /\ UNCHANGED <<clock, created, deleted>>

GetTask ==
  /\ \E id \in TaskIds, io \in ReadOutcomes :
       LET r == getTask(Fs, id, io)
       IN Commit(r.fs, Call("getTask", id, None, clock, r, None, FALSE))
  /\ UNCHANGED <<clock, created, deleted>>

UpdateTask ==
  /\ \E id \in TaskIds, input \in UpdateInputs, io \in WriteOutcomes :
       LET r == updateTask(Fs, id, input, clock, io)
       IN Commit(r.fs, Call("updateTask", id, input, clock, r, None, FALSE))
  /\ UNCHANGED <<clock, created, deleted>>

ChangeStatus ==
  /\ \E id \in TaskIds, status \in StatusInputs, io \in WriteOutcomes :
       LET r == changeStatus(Fs, id, status, clock, io)
       IN Commit(r.fs, Call("changeStatus", id, status, clock, r, None,
                            FALSE))
  /\ UNCHANGED <<clock, created, deleted>>

DeleteTask ==
  /\ \E id \in TaskIds, io \in WriteOutcomes :
       LET r == deleteTask(Fs, id, io)
       IN /\ Commit(r.fs, Call("deleteTask", id, None, clock, r, None,
                               FALSE))
          /\ deleted' = IF r.error = NoError THEN deleted \cup {id}
                        ELSE deleted
  /\ UNCHANGED <<clock, created>>

ArchiveTask ==
  /\ \E id \in TaskIds, io \in WriteOutcomes :
       LET r == archiveTask(Fs, id, clock, io)
       IN Commit(r.fs, Call("archiveTask", id, None, clock, r, None, FALSE))
  /\ UNCHANGED <<clock, created, deleted>>

\* Time passes between two calls: the next new Date() reads a later value.
Tick ==
  /\ clock < MaxClock
  /\ clock' = clock + 1
  /\ UNCHANGED <<dataDir, filePath, backupPath, created, deleted, last,
                 inflight>>

FromOutcome(o) == Result(o.fs, o.error, None, <<>>, o.events)

Load ==
  /\ \E io \in ReadOutcomes :
       LET l == load(Fs, io)
       IN Commit(Fs, Call("load", 0, io, clock, Throw(Fs, l.error), l.db,
                          FALSE))
  /\ UNCHANGED <<clock, created, deleted>>

Next ==
  \/ CreateTask
  \/ ListTasks
  \/ GetTask
  \/ UpdateTask
  \/ ChangeStatus
  \/ DeleteTask
  \/ ArchiveTask
  \/ Load

Spec == Init /\ [][Next]_vars

(***************************************************************************)
(* createTask and updateTask at the limits of the title length.            *)
(***************************************************************************)
TitleBodyLengths ==
  {0, 1, MaxTitleLength - 1, MaxTitleLength, MaxTitleLength + 1}

\* Titles of n letters with up to MaxPad blanks on either side.
BoundaryTitles ==
  { Rep(" ", l) \o Rep("a", n) \o Rep(" ", r) :
      n \in TitleBodyLengths, l \in 0..MaxPad, r \in 0..MaxPad }

\* The first createTask on a new store.
CreateTaskAtBoundary == created = <<>> /\ CreateTaskFrom(BoundaryTitles)

\* updateTask of that task with a title at the limits.
UpdateTaskAtBoundary ==
  /\ created # <<>>
  /\ \E title \in BoundaryTitles :
       LET input == UpdateTaskInput(Some(title), None, None, None)
           r == updateTask(Fs, created[1], input, clock, IoOk)
       IN Commit(r.fs, Call("updateTask", created[1], input, clock, r, None,
                            FALSE))
  /\ UNCHANGED <<clock, created, deleted>>

ValidationNext ==
  \/ CreateTaskAtBoundary
  \/ UpdateTaskAtBoundary
  \/ Tick

ValidationSpec == Init /\ [][ValidationNext]_vars

(***************************************************************************)
(* The persistence store on its own: the disk starts in any of the states  *)
(* below and the operations of StorageService are called directly.         *)
(***************************************************************************)
MaxSaved == 2

SampleTask(i) ==
  IF i % 2 = 1
  THEN Task(i, <<"a">>, None, "open", None, 0, 0)
  ELSE Task(i, <<"b", " ", "c">>, Some(<<"d">>), "in_progress",
            Some(<<"x">>), 0, 1)

\* The task lists saved: 1..n in ascending and in descending id order.
SampleTasks ==
  UNION { { [i \in 1..n |-> SampleTask(i)],
            [i \in 1..n |-> SampleTask(n + 1 - i)] } : n \in 0..MaxSaved }

DatabaseInputs ==
  { TaskDatabase(tasks, JNumber(Len(tasks) + 1)) : tasks \in SampleTasks }
  \cup { TaskDatabase(<<SampleTask(1)>>, NaN),
         TaskDatabase(<<>>, Infinity) }

FileInputs ==
  { Absent, Garbage,
    JsonText(JNull),
    JsonText(JNumber(5)),
    JsonText(JArray(<<>>)),
    JsonText(JObject(JUndefined, JNumber(1))),
    JsonText(JObject(JString(<<"a">>), JNumber(1))),
    JsonText(JObject(JArray(<<>>), JUndefined)),
    JsonText(JObject(JArray(<<>>), JString(<<"1">>))),
    JsonText(JObject(JArray(<<>>), JNull)),
    JSONstringify(EmptyDatabase),
    JSONstringify(TaskDatabase(<<SampleTask(1)>>, JNumber(2))) }

BackupInputs ==
  {Absent, Garbage, JSONstringify(TaskDatabase(<<SampleTask(1)>>, JNumber(2)))}

StoreInit ==
  /\ \E d \in BOOLEAN, f \in FileInputs, b \in BackupInputs :
       /\ ~d => (f = Absent /\ b = Absent)
       /\ dataDir = d
       /\ filePath = f
       /\ backupPath = b
       /\ last = [NoCall EXCEPT !.pre = Disk(d, f, b)]
  /\ clock = 0
  /\ created = <<>>
  /\ deleted = {}
  /\ inflight = NoInvocation

Initialize ==
  /\ \E io \in IoOutcomes :
       LET r == initialize(Fs, io)
       IN Commit(r.fs, Call("initialize", 0, None, clock, FromOutcome(r),
                            None, FALSE))
  /\ UNCHANGED <<clock, created, deleted>>

Exists ==
  /\ Commit(Fs, Call("exists", 0, None, clock, Throw(Fs, NoError), None,
                     exists(Fs)))
  /\ UNCHANGED <<clock, created, deleted>>

Save ==
  /\ \E db \in DatabaseInputs, io \in IoOutcomes :
       LET r == save(Fs, db, io)
       IN Commit(r.fs, Call("save", 0, None, clock, FromOutcome(r),
                            Some(db), FALSE))
  /\ UNCHANGED <<clock, created, deleted>>

Backup ==
  /\ \E io \in IoOutcomes :
       LET r == backup(Fs, io)
       IN Commit(r.fs, Call("backup", 0, None, clock, FromOutcome(r), None,
                            FALSE))
  /\ UNCHANGED <<clock, created, deleted>>

StoreNext ==
  \/ Initialize
  \/ Exists
  \/ Load
  \/ Save
  \/ Backup
  \/ GetTask
  \/ ListTasks

StoreSpec == StoreInit /\ [][StoreNext]_vars

(***************************************************************************)
(* The task engine on a populated store.  The store is what a bounded run  *)
(* of earlier calls has left on the disk: up to MaxTasks createTask calls, *)
(* an updateTask on some of the tasks and at most one deleteTask.  One     *)
(* call with any of the inputs below is then made on it.                   *)
(***************************************************************************)
MaxTasks == 3

\* An update input: the four optional keys of UpdateTaskInput, and in
\* explicit the keys the caller wrote with the value undefined.  Reading
\* such a key gives undefined, as reading an omitted key does.
Patch(title, description, status, branch, explicit) ==
  UpdateTaskInput(title, description, status, branch)
    @@ [explicit |-> explicit]

\* What the earlier calls gave for one task: the input of its createTask
\* and of the updateTask that followed, if any.
Profiles ==
  { [title |-> <<"a">>, description |-> None, patch |-> None],
    [title |-> <<"b", " ", "c">>, description |-> Some(<<"d">>),
     patch |-> Some(Patch(None, None, Some("in_progress"), Some(<<"x">>),
                          {}))],
    [title |-> <<"a">>, description |-> Some(<<"d">>),
     patch |-> Some(Patch(None, None, Some("completed"), None, {}))],
    [title |-> <<"b", " ", "c">>, description |-> Some(<<"d">>),
     patch |-> Some(Patch(None, None, Some("archived"), Some(<<"x">>),
                          {}))] }

\* The earlier calls: one profile per created task, and the id deleted at
\* the end (0 when none was).
Histories ==
  UNION { { [profiles |-> p, deleted |-> d] :
              p \in [1..n -> Profiles], d \in 0..n } : n \in 0..MaxTasks }

\* The disk after the first k createTask calls of a history.
RECURSIVE Created(_, _)
Created(p, k) ==
  IF k = 0 THEN Disk(FALSE, Absent, Absent)
  ELSE createTask(Created(p, k - 1),
                  CreateTaskInput(p[k].title, p[k].description), 0, IoOk).fs

\* The disk after the updateTask calls on the tasks 1..k as well.
RECURSIVE Patched(_, _)
Patched(p, k) ==
  IF k = 0 THEN Created(p, Len(p))
  ELSE IF p[k].patch = None THEN Patched(p, k - 1)
  ELSE updateTask(Patched(p, k - 1), k, p[k].patch[1], 0, IoOk).fs

History(h) ==
  IF h.deleted = 0 THEN Patched(h.profiles, Len(h.profiles))
  ELSE deleteTask(Patched(h.profiles, Len(h.profiles)), h.deleted, IoOk).fs

EngineInit ==
  /\ \E h \in Histories :
       /\ dataDir = History(h).dataDir
       /\ filePath = History(h).filePath
       /\ backupPath = History(h).backupPath
       /\ created = [i \in 1..Len(h.profiles) |-> i]
       /\ deleted = IF h.deleted = 0 THEN {} ELSE {h.deleted}
       /\ last = [NoCall EXCEPT !.pre = History(h)]
  /\ clock = 0
  /\ inflight = NoInvocation

EngineTaskIds == 1..(MaxTasks + 1)

EngineTitles ==
  {<<>>, <<" ">>, <<" ", "c", " ">>, Rep("a", MaxTitleLength + 1)}

EngineDescriptions == {None, Some(<<" ">>), Some(<<" ", "e">>)}

EngineUpdateInputs ==
  { Patch(None, None, None, None, {}),
    Patch(None, None, None, None, {"description"}),
    Patch(Some(<<"e", " ">>), None, None, None, {}),
    Patch(Some(<<>>), None, None, None, {}),
    Patch(Some(<<" ">>), Some(<<"e">>), Some("completed"), Some(<<"y">>),
          {}),
    Patch(Some(Rep("a", MaxTitleLength + 1)), None, None, None, {}),
    Patch(None, Some(<<>>), None, None, {}),
    Patch(None, Some(<<" ">>), None, None, {}),
    Patch(None, Some(<<" ", "e">>), None, None, {}),
    Patch(None, None, None, Some(<<"y">>), {}),
    Patch(None, None, Some("in_progress"), Some(<<"y">>), {}),
    Patch(Some(<<"e", " ">>), Some(<<" ", "e">>), Some("completed"),
          Some(<<"y">>), {}) }
  \cup { Patch(None, None, Some(t), None, {}) : t \in Statuses }

EngineListInputs ==
  { ListOptions(s, a) :
      s \in {None} \cup { Some(t) : t \in Statuses }, a \in BOOLEAN }

\* No call has been made on the store since the earlier ones.
FirstCall == last.op = "none"

\* The calls below meet no write failure: those are the subject of Spec.
EngineCreateTask ==
  /\ FirstCall
  /\ \E title \in EngineTitles, description \in EngineDescriptions :
       LET input == CreateTaskInput(title, description)
           r == createTask(Fs, input, clock, IoOk)
       IN /\ Commit(r.fs, Call("createTask", 0, input, clock, r, None,
                               FALSE))
          /\ created' = IF r.error = NoError
                        THEN Append(created, r.ret[1].id)
                        ELSE created
  /\ UNCHANGED <<clock, deleted>>

EngineListTasks ==
  /\ FirstCall
  /\ \E options \in EngineListInputs, io \in ReadOutcomes :
       LET r == listTasks(Fs, options, io)
       IN Commit(r.fs, Call("listTasks", 0, options, clock, r, None, FALSE))
  /\ UNCHANGED <<clock, created, deleted>>

EngineGetTask ==
  /\ FirstCall
  /\ \E id \in EngineTaskIds, io \in ReadOutcomes :
       LET r == getTask(Fs, id, io)
       IN Commit(r.fs, Call("getTask", id, None, clock, r, None, FALSE))
  /\ UNCHANGED <<clock, created, deleted>>

EngineUpdateTask ==
  /\ FirstCall
  /\ \E id \in EngineTaskIds, input \in EngineUpdateInputs :
       LET r == updateTask(Fs, id, input, clock, IoOk)
       IN Commit(r.fs, Call("updateTask", id, input, clock, r, None, FALSE))
  /\ UNCHANGED <<clock, created, deleted>>

EngineChangeStatus ==
  /\ FirstCall
  /\ \E id \in EngineTaskIds, status \in Statuses :
       LET r == changeStatus(Fs, id, status, clock, IoOk)
       IN Commit(r.fs, Call("changeStatus", id, status, clock, r, None,
                            FALSE))
  /\ UNCHANGED <<clock, created, deleted>>

EngineDeleteTask ==
  /\ FirstCall
  /\ \E id \in EngineTaskIds :
       LET r == deleteTask(Fs, id, IoOk)
       IN /\ Commit(r.fs, Call("deleteTask", id, None, clock, r, None,
                               FALSE))
          /\ deleted' = IF r.error = NoError THEN deleted \cup {id}
                        ELSE deleted
  /\ UNCHANGED <<clock, created>>

EngineArchiveTask ==
  /\ FirstCall
  /\ \E id \in EngineTaskIds :
       LET r == archiveTask(Fs, id, clock, IoOk)
       IN Commit(r.fs, Call("archiveTask", id, None, clock, r, None, FALSE))
  /\ UNCHANGED <<clock, created, deleted>>

\* Time passes before the call.
EngineTick == FirstCall /\ Tick

EngineNext ==
  \/ EngineCreateTask
  \/ EngineListTasks
  \/ EngineGetTask
  \/ EngineUpdateTask
  \/ EngineChangeStatus
  \/ EngineDeleteTask
  \/ EngineArchiveTask
  \/ EngineTick

EngineSpec == EngineInit /\ [][EngineNext]_vars

(***************************************************************************)
(* The sanitizer and the branch name on their own: one call with any of    *)
(* the texts below.                                                        *)
(***************************************************************************)
MaxText == 3

TextAlphabet == {"a", "A", "1", "-", " ", "!", KatakanaYu, KelvinSign}

\* The texts of up to MaxText characters.
ShortTexts == UNION { [1..n -> TextAlphabet] : n \in 0..MaxText }

\* The lengths around the limit of the slug.
PrefixLengths == {0, MaxSlugLength - 1, MaxSlugLength}

\* A short text, alone or after a run of letters that brings it to the
\* limit, and two texts that spell the fallback.
TextInputs ==
  { Rep("a", n) \o s : n \in PrefixLengths, s \in ShortTexts }
    \cup { <<"U", "n", "t", "i", "t", "l", "e", "d">>,
           <<"!", "u", "n", " ", "t", "i", "t", "l", "e", "d">> }

BranchIds == {1, 12}

SanitizeForBranchName ==
  /\ FirstCall
  /\ \E text \in TextInputs :
       Commit(Fs, Call("sanitizeForBranchName", 0, text, clock,
                       Result(Fs, NoError, Some(sanitizeForBranchName(text)),
                              <<>>, <<>>),
                       None, FALSE))
  /\ UNCHANGED <<clock, created, deleted>>

GenerateBranchName ==
  /\ FirstCall
  /\ \E taskId \in BranchIds, taskTitle \in TextInputs :
       Commit(Fs, Call("generateBranchName", taskId, taskTitle, clock,
                       Result(Fs, NoError,
                              Some(generateBranchName(taskId, taskTitle)),
                              <<>>, <<>>),
                       None, FALSE))
  /\ UNCHANGED <<clock, created, deleted>>

SanitizeNext ==
  \/ SanitizeForBranchName
  \/ GenerateBranchName

SanitizeSpec == Init /\ [][SanitizeNext]_vars

(***************************************************************************)
(* Two invocations of the program at the same time on one data directory.  *)
(* Each runs in its own process, so that their file-system calls           *)
(* interleave: an invocation loads and changes the database in memory,     *)
(* then save makes the directory and the backup copy, then it writes the   *)
(* primary file.  inflight.calls holds the position and the memory of each *)
(* invocation and inflight.log the steps in the order they were taken.     *)
(***************************************************************************)
MaxRaceTasks == 2

Procs == {1, 2}

RaceHistories == { h \in Histories : Len(h.profiles) <= MaxRaceTasks }

Invocation(op, id, input) == [op |-> op, id |-> id, input |-> input]

\* The mutating operations the two invocations choose from.
Invocations ==
  { Invocation("createTask", 0, CreateTaskInput(<<"c">>, None)),
    Invocation("createTask", 0, CreateTaskInput(<<"e">>, Some(<<"d">>))),
    Invocation("updateTask", 1,
               Patch(Some(<<"e">>), None, None, None, {})),
    Invocation("updateTask", 1,
               Patch(None, None, Some("completed"), None, {})),
    Invocation("updateTask", 2,
               Patch(None, None, Some("archived"), None, {})),
    Invocation("deleteTask", 1, None) }

\* The operation run on its own, with no file-system failure.
Run(call, fs, now) ==
  IF call.op = "createTask" THEN createTask(fs, call.input, now, IoOk)
  ELSE IF call.op = "updateTask"
       THEN updateTask(fs, call.id, call.input, now, IoOk)
       ELSE deleteTask(fs, call.id, IoOk)

NotStarted ==
  [pc |-> "start", call |-> Invocation("none", 0, None), db |-> None,
   ret |-> None, error |-> NoError]

RaceInit ==
  /\ \E h \in RaceHistories :
       /\ dataDir = History(h).dataDir
       /\ filePath = History(h).filePath
       /\ backupPath = History(h).backupPath
       /\ created = [i \in 1..Len(h.profiles) |-> i]
       /\ deleted = IF h.deleted = 0 THEN {} ELSE {h.deleted}
       /\ last = [NoCall EXCEPT !.pre = History(h)]
  /\ clock = 0
  /\ inflight = [calls |-> [p \in Procs |-> NotStarted], log |-> <<>>]

Step(p, calls, step) ==
  inflight' = [calls |-> [inflight.calls EXCEPT ![p] = calls],
               log |-> Append(inflight.log, [p |-> p, step |-> step])]

\* The operation up to its call of save: the title is checked, the file is
\* loaded and the change is made in memory.  The database in memory is the
\* one the operation writes when it runs on its own.
RaceLoad(p) ==
  /\ inflight.calls[p].pc = "start"
  /\ \E call \in Invocations :
       LET r == Run(call, Fs, clock)
       IN Step(p,
               IF r.error # NoError
               THEN [pc |-> "done", call |-> call, db |-> None,
                     ret |-> None, error |-> r.error]
               ELSE [pc |-> "loaded", call |-> call,
                     db |-> load(r.fs, IoOk).db, ret |-> r.ret,
                     error |-> NoError],
               "load")
  /\ UNCHANGED <<dataDir, filePath, backupPath, clock, created, deleted,
                 last>>

\* save, up to the write: initialize, then backup when the file exists.
RaceBackup(p) ==
  /\ inflight.calls[p].pc = "loaded"
  /\ LET i == initialize(Fs, IoOk)
         b == IF exists(i.fs) THEN backup(i.fs, IoOk)
              ELSE Outcome(i.fs, NoError, <<>>)
     IN /\ dataDir' = b.fs.dataDir
        /\ filePath' = b.fs.filePath
        /\ backupPath' = b.fs.backupPath
        /\ Step(p, [inflight.calls[p] EXCEPT
                      !.pc = IF b.error = NoError THEN "copied" ELSE "done",
                      !.error = IF b.error = NoError THEN NoError
                                ELSE StorageError(MsgSaveFailed)],
                "backup")
  /\ UNCHANGED <<clock, created, deleted, last>>

\* save, the write of the primary file.
RaceWrite(p) ==
  /\ inflight.calls[p].pc = "copied"
  /\ LET w == writeFile(Fs, JSONstringify(inflight.calls[p].db[1]), IoOk)
     IN /\ dataDir' = w.fs.dataDir
        /\ filePath' = w.fs.filePath
        /\ backupPath' = w.fs.backupPath
        /\ Step(p, [inflight.calls[p] EXCEPT !.pc = "done",
                                             !.error = w.error],
                "write")
  /\ UNCHANGED <<clock, created, deleted, last>>

RaceNext ==
  \/ \E p \in Procs : RaceLoad(p)
  \/ \E p \in Procs : RaceBackup(p)
  \/ \E p \in Procs : RaceWrite(p)

RaceSpec == RaceInit /\ [][RaceNext]_vars

(***************************************************************************)
(* initialize() called by several invocations of the program at the same   *)
(* time, interleaved at its two file-system calls, existsSync and          *)
(* mkdirSync.  inflight.calls holds, for each invocation, its position,    *)
(* what existsSync answered, how mkdirSync ended and the fault thrown.     *)
(***************************************************************************)
MaxInitializers == 3

Initializers == 1..MaxInitializers

\* fs.mkdirSync(dataDir, {mode: 0o700}), not recursive: it fails with EEXIST
\* when the directory is there, and otherwise as the outcome says.
mkdirSync(fs, outcome) ==
  IF fs.dataDir THEN [fs |-> fs, result |-> "EEXIST"]
  ELSE IF outcome = "fail" THEN [fs |-> fs, result |-> "fail"]
       ELSE [fs |-> [fs EXCEPT !.dataDir = TRUE], result |-> "ok"]

InitializeNotStarted ==
  [pc |-> "start", seen |-> FALSE, mkdir |-> "none", error |-> NoError]

InitializeInit ==
  /\ \E d \in BOOLEAN, f \in {Absent, Garbage, JSONstringify(EmptyDatabase)} :
       /\ ~d => f = Absent
       /\ dataDir = d
       /\ filePath = f
       /\ backupPath = Absent
       /\ last = [NoCall EXCEPT !.pre = Disk(d, f, Absent)]
  /\ clock = 0
  /\ created = <<>>
  /\ deleted = {}
  /\ inflight = [calls |-> [p \in Initializers |-> InitializeNotStarted],
                 log |-> <<>>]

\* if (!fs.existsSync(this.dataDir)): initialize returns when the directory
\* is there.
InitializeExists(p) ==
  /\ inflight.calls[p].pc = "start"
  /\ Step(p, [inflight.calls[p] EXCEPT
                !.pc = IF Fs.dataDir THEN "done" ELSE "checked",
                !.seen = Fs.dataDir],
          "existsSync")
  /\ UNCHANGED <<dataDir, filePath, backupPath, clock, created, deleted,
                 last>>

\* fs.mkdirSync(...), and the catch that throws StorageError.
InitializeMkdir(p) ==
  /\ inflight.calls[p].pc = "checked"
  /\ \E outcome \in {"ok", "fail"} :
       LET m == mkdirSync(Fs, outcome)
       IN /\ dataDir' = m.fs.dataDir
          /\ Step(p, [inflight.calls[p] EXCEPT
                        !.pc = "done",
                        !.mkdir = m.result,
                        !.error = IF m.result = "ok" THEN NoError
                                  ELSE StorageError(MsgMkdirFailed)],
                  "mkdirSync")
  /\ UNCHANGED <<filePath, backupPath, clock, created, deleted, last>>

InitializeNext ==
  \/ \E p \in Initializers : InitializeExists(p)
  \/ \E p \in Initializers : InitializeMkdir(p)

InitializeSpec == InitializeInit /\ [][InitializeNext]_vars

(***************************************************************************)
(* The commands of the CLI, one after the other, from an empty store.      *)
(***************************************************************************)
MaxAdds == 1

CliTitles == {<<"A", " ", "b">>, <<" ">>}

\* The id arguments: the first id, zero, a word, and an id followed by a
\* fraction.
CliIdStrings == {<<"1">>, <<"0">>, <<"a">>, <<"1", ".", "5">>}

\* What the repository answers: no repository; the branches cannot be
\* listed; the branch exists or not, and switching to it works or fails.
GitInputs ==
  { Git(FALSE, "ok", FALSE, "ok"), Git(TRUE, "fail", FALSE, "ok") }
    \cup { Git(TRUE, "ok", listed, checkout) :
             listed \in BOOLEAN, checkout \in {"ok", "fail"} }

StartInput(idString, git) == [idString |-> idString, git |-> git]

AddCommand ==
  /\ Len(created) < MaxAdds
  /\ \E title \in CliTitles :
       LET r == addCommand(Fs, title, clock, IoOk)
       IN /\ Commit(r.fs, Call("add", 0, title, clock, r, None, FALSE))
          /\ created' = IF r.error = NoError
                        THEN Append(created, r.ret[1].id)
                        ELSE created
  /\ UNCHANGED <<clock, deleted>>

StartCommand ==
  /\ \E idString \in CliIdStrings, git \in GitInputs :
       LET r == startCommand(Fs, idString, git, clock, IoOk)
       IN Commit(r.fs, Call("start", parseTaskId(idString).id,
                            StartInput(idString, git), clock, r, None,
                            FALSE))
  /\ UNCHANGED <<clock, created, deleted>>

DoneCommand ==
  /\ \E idString \in CliIdStrings :
       LET r == doneCommand(Fs, idString, clock, IoOk)
       IN Commit(r.fs, Call("done", parseTaskId(idString).id, idString,
                            clock, r, None, FALSE))
  /\ UNCHANGED <<clock, created, deleted>>

DeleteCommand ==
  /\ \E idString \in CliIdStrings, confirmed \in BOOLEAN :
       LET r == deleteCommand(Fs, idString, confirmed, IoOk)
       IN /\ Commit(r.fs, Call("delete", parseTaskId(idString).id,
                               idString, clock, r, None, confirmed))
          /\ deleted' = IF r.error = NoError /\ r.events # <<>>
                        THEN deleted \cup {parseTaskId(idString).id}
                        ELSE deleted
  /\ UNCHANGED <<clock, created>>

ArchiveCommand ==
  /\ \E idString \in CliIdStrings :
       LET r == archiveCommand(Fs, idString, clock, IoOk)
       IN Commit(r.fs, Call("archive", parseTaskId(idString).id, idString,
                            clock, r, None, FALSE))
  /\ UNCHANGED <<clock, created, deleted>>

CliNext ==
  \/ AddCommand
  \/ StartCommand
  \/ DoneCommand
  \/ DeleteCommand
  \/ ArchiveCommand

CliSpec == Init /\ [][CliNext]_vars

(***************************************************************************)
(* Properties of the persistence store, checked under StoreSpec.           *)
(***************************************************************************)
Index(events, e) ==
  IF \E i \in DOMAIN events : events[i] = e
  THEN CHOOSE i \in DOMAIN events : events[i] = e
  ELSE 0
Occurs(events, e) == Index(events, e) # 0

SaveSucceeded == last.op = "save" /\ last.error = NoError

\* C3: after a successful save made while the primary file existed with
\* content X, the backup file holds exactly X, whatever it held before.
C3_BackupHoldsPreviousPrimary ==
  (SaveSucceeded /\ last.pre.filePath # Absent)
    => backupPath = last.pre.filePath

C3_Witness ==
  /\ SaveSucceeded
  /\ last.pre.filePath.k = "json"
  /\ last.pre.backupPath \notin {Absent, last.pre.filePath}
  /\ filePath # last.pre.filePath
  /\ backupPath = last.pre.filePath

\* C4: within one save the copy of the existing primary file to the backup
\* path is complete before the primary file is written, and when the copy
\* fails save throws a StorageError and the primary file keeps its content.
C4_BackupBeforeWrite ==
  last.op = "save" =>
    /\ (last.pre.filePath # Absent
          /\ (Occurs(last.events, "write")
                \/ Occurs(last.events, "write_failed")))
         => /\ Occurs(last.events, "copy")
            /\ Index(last.events, "copy") < Len(last.events)
            /\ last.events[Len(last.events)] \in {"write", "write_failed"}
    /\ Occurs(last.events, "copy_failed")
         => /\ last.error.name = "StorageError"
            /\ filePath = last.pre.filePath
            /\ ~Occurs(last.events, "write")
            /\ ~Occurs(last.events, "write_failed")

C4_Witness ==
  /\ last.op = "save"
  /\ Occurs(last.events, "copy_failed")
  /\ last.pre.filePath.k = "json"
  /\ JSONstringify(last.db[1]) # last.pre.filePath
  /\ filePath = last.pre.filePath
  /\ backupPath = Garbage

\* C5: when the write step of save fails while the primary file existed
\* with content X, the backup file holds X afterwards and save throws a
\* StorageError.
C5_BackupSurvivesFailedWrite ==
  (last.op = "save" /\ Occurs(last.events, "write_failed")
     /\ last.pre.filePath # Absent)
    => /\ backupPath = last.pre.filePath
       /\ last.error.name = "StorageError"

C5_Witness ==
  /\ last.op = "save"
  /\ Occurs(last.events, "write_failed")
  /\ last.pre.filePath.k = "json"
  /\ last.pre.backupPath # last.pre.filePath
  /\ filePath = Garbage
  /\ backupPath = last.pre.filePath

\* C6 as stated: for every Database whose nextId is a number, a load right
\* after a successful save returns a Database equal to the one saved.
C6_RoundTripOfAnyNumber ==
  SaveSucceeded => load(Fs, IoOk) = Loaded(last.db, NoError)

\* C6 amended: for every Database whose nextId is a finite number, a load
\* right after a successful save returns a Database equal to the one saved:
\* the same tasks in the same order and the same nextId.
C6_RoundTripOfFiniteNextId ==
  (SaveSucceeded /\ IsFinite(last.db[1].nextId))
    => load(Fs, IoOk) = Loaded(last.db, NoError)

C6_Witness ==
  /\ SaveSucceeded
  /\ IsFinite(last.db[1].nextId)
  /\ Len(last.db[1].tasks) >= 2
  /\ last.db[1].tasks[1].id > last.db[1].tasks[2].id
  /\ load(Fs, IoOk).db = last.db

\* C7: with the primary file absent, load returns the empty Database and
\* throws nothing, and load, getTask and listTasks leave the data
\* directory, the primary file and the backup file as they were.
C7_LoadOfAbsentFile ==
  last.pre.filePath = Absent =>
    /\ last.op = "load"
         => /\ last.db = Some(EmptyDatabase)
            /\ last.error = NoError
            /\ Fs = last.pre
    /\ last.op = "listTasks"
         => /\ last.error = NoError
            /\ last.list = <<>>
            /\ Fs = last.pre
    /\ last.op = "getTask"
         => /\ last.error = TaskNotFoundError
            /\ Fs = last.pre

C7_Witness ==
  /\ last.op = "load"
  /\ last.pre.filePath = Absent
  /\ last.pre.dataDir
  /\ last.pre.backupPath # Absent
  /\ last.db = Some(EmptyDatabase)

\* The shape load requires of the parsed value.
WellShaped(v) ==
  /\ v.t = "object"
  /\ v.tasks.t = "array"
  /\ v.nextId.t = "number"

\* C9: when the primary file parses as JSON but the value does not have
\* tasks as an array and nextId as a number, load throws the malformed-data
\* fault and returns no Database.
C9_MalformedDataFault ==
  (last.op = "load" /\ last.pre.filePath.k = "json"
     /\ ~WellShaped(last.pre.filePath.v))
    => /\ last.error = StorageError(MsgFormatInvalid)
       /\ last.db = None

(***************************************************************************)
(* Properties of the task engine, checked under Spec.                      *)
(***************************************************************************)
CreateSucceeded == last.op = "createTask" /\ last.error = NoError

\* C1: the ids returned by successful createTask calls are strictly
\* increasing in call order, hence pairwise distinct, and an id that was
\* deleted is not returned by a later createTask.
C1_IdsIncreaseAndAreNotReused ==
  /\ \A i, j \in DOMAIN created : i < j => created[i] < created[j]
  /\ CreateSucceeded
       => /\ last.ret[1].id = created[Len(created)]
          /\ last.ret[1].id \notin deleted

C1_Witness ==
  /\ CreateSucceeded
  /\ Len(created) = 2
  /\ created[1] \in deleted
  /\ last.ret[1].id = 2

\* The counter a load of the file returns.
NextIdOf(file) == IF file = Absent THEN JNumber(1) ELSE file.v.nextId

\* C2: in every persisted state nextId is 1 plus the number of successful
\* createTask calls, every stored id is a positive integer below nextId, no
\* two stored tasks share an id, and every call other than a successful
\* createTask leaves nextId as it was.
C2_NextIdCountsCreates ==
  /\ filePath = Absent => created = <<>>
  /\ filePath.k = "json"
       => LET tasks == filePath.v.tasks.items
              nextId == filePath.v.nextId
          IN /\ nextId = JNumber(Len(created) + 1)
             /\ \A i \in DOMAIN tasks : tasks[i].id \in 1..(nextId.v - 1)
             /\ \A i, j \in DOMAIN tasks :
                  i # j => tasks[i].id # tasks[j].id
  /\ (~CreateSucceeded /\ filePath.k # "raw" /\ last.pre.filePath.k # "raw")
       => NextIdOf(filePath) = NextIdOf(last.pre.filePath)

C2_Witness ==
  /\ last.op = "deleteTask"
  /\ last.error = NoError
  /\ Len(created) = 2
  /\ filePath.k = "json"
  /\ filePath.v.nextId = JNumber(3)
  /\ Len(filePath.v.tasks.items) = 1

\* The faults load can throw on a primary file that is not JSON: the
\* corruption fault, whose message names the backup file, or the read
\* failure when the file could not be read at all.
CorruptionFaults == {StorageError(MsgCorrupted), StorageError(MsgLoadFailed)}

\* C8: when the primary file exists but is not JSON, load throws the
\* corruption fault that names the backup file and returns no Database,
\* the primary and the backup file stay as they are (nothing is restored),
\* and every TaskService operation on such a store fails without writing.
C8_CorruptStoreIsLeftAlone ==
  (last.op # "none" /\ last.pre.filePath.k = "raw")
    => /\ Fs = last.pre
       /\ last.events = <<>>
       /\ last.error # NoError
       /\ last.ret = None /\ last.list = <<>> /\ last.db = None
       /\ last.error.name = "StorageError" => last.error \in CorruptionFaults
       /\ last.error.name # "StorageError"
            => /\ last.op = "createTask"
               /\ last.error.name = "ValidationError"
       /\ load(last.pre, IoOk) = Loaded(None, StorageError(MsgCorrupted))

C8_Witness ==
  /\ last.op = "createTask"
  /\ last.pre.filePath = Garbage
  /\ last.pre.backupPath.k = "json"
  /\ last.error = StorageError(MsgCorrupted)
  /\ filePath = Garbage

(***************************************************************************)
(* Properties of title validation, checked under ValidationSpec.           *)
(***************************************************************************)
TitleAccepted == last.error.name # "ValidationError"

\* C10 as stated: createTask accepts a title exactly when its length after
\* trimming is between 1 and 200.
C10_AcceptsByTrimmedLength ==
  last.op = "createTask"
    => (TitleAccepted <=> Len(Trim(last.input.title)) \in 1..MaxTitleLength)

\* C10 amended: createTask accepts a title exactly when its length after
\* trimming is at least 1 and its length before trimming is at most 200,
\* and raises ValidationError otherwise.
C10_AcceptsByTrimmedAndRawLength ==
  last.op = "createTask"
    => (TitleAccepted <=> /\ Len(Trim(last.input.title)) >= 1
                          /\ Len(last.input.title) <= MaxTitleLength)

C10_Witness ==
  /\ last.op = "createTask"
  /\ ~TitleAccepted
  /\ Len(Trim(last.input.title)) = MaxTitleLength
  /\ Len(last.input.title) > MaxTitleLength

(***************************************************************************)
(* Properties of the task engine on a populated store, checked under       *)
(* EngineSpec.                                                             *)
(***************************************************************************)
\* The task list and the counter a load of the disk returns.
TasksOf(fs) ==
  IF fs.filePath = Absent THEN <<>> ELSE fs.filePath.v.tasks.items
IdsOf(fs) == { TasksOf(fs)[i].id : i \in DOMAIN TasksOf(fs) }

\* C11: a createTask or updateTask that throws the validation fault leaves
\* the primary and the backup file exactly as they were: it makes no
\* file-system call, so no task is added or modified, nextId is not
\* incremented and no backup is taken.
C11_ValidationFaultWritesNothing ==
  (last.op \in {"createTask", "updateTask"}
     /\ last.error.name = "ValidationError")
    => /\ Fs = last.pre
       /\ last.events = <<>>
       /\ last.ret = None

C11_Witness ==
  /\ last.op = "updateTask"
  /\ last.error = ValidationError(MsgTitleRequired)
  /\ last.input.status # None
  /\ last.id \in IdsOf(last.pre)
  /\ backupPath # Absent

LookupOps ==
  {"getTask", "updateTask", "changeStatus", "archiveTask", "deleteTask"}

\* C12: getTask, updateTask, changeStatus, archiveTask and deleteTask with
\* an id that no stored task has throw the not-found fault (once the store
\* has been read), return nothing, and leave the primary and the backup
\* file unchanged.
C12_AbsentIdIsNotFound ==
  (last.op \in LookupOps /\ last.id \notin IdsOf(last.pre)
     /\ last.error # StorageError(MsgLoadFailed))
    => /\ last.error = TaskNotFoundError
       /\ Fs = last.pre
       /\ last.events = <<>>
       /\ last.ret = None

C12_Witness ==
  /\ last.op = "deleteTask"
  /\ last.error = TaskNotFoundError
  /\ last.id \in deleted
  /\ Len(TasksOf(last.pre)) = 2
  /\ backupPath = last.pre.backupPath

\* C13: a successful createTask returns a task whose id is the stored
\* nextId before the call, with status open, the trimmed title, no branch,
\* the trimmed description or none when that is empty, and createdAt equal
\* to updatedAt; the stored task list afterwards is the previous list
\* followed by this task, and getTask(id) returns it.
C13_CreateTaskResult ==
  CreateSucceeded
    => LET task == last.ret[1]
           description == last.input.description
       IN /\ JNumber(task.id) = NextIdOf(last.pre.filePath)
          /\ task.status = "open"
          /\ task.title = Trim(last.input.title)
          /\ task.branch = None
          /\ task.description =
               IF description = None \/ Trim(description[1]) = <<>>
               THEN None ELSE Some(Trim(description[1]))
          /\ task.createdAt = task.updatedAt
          /\ TasksOf(Fs) = Append(TasksOf(last.pre), task)
          /\ getTask(Fs, task.id, IoOk).ret = Some(task)

C13_Witness ==
  /\ CreateSucceeded
  /\ last.input.title = <<" ", "c", " ">>
  /\ last.input.description = Some(<<" ">>)
  /\ Len(TasksOf(last.pre)) = 2
  /\ deleted # {}
  /\ last.ret[1].id = 4
  /\ last.now = 1

UpdateSucceeded == last.op = "updateTask" /\ last.error = NoError

\* The position of the task with this id in a task list that holds it.
PositionOf(tasks, id) == CHOOSE i \in DOMAIN tasks : tasks[i].id = id

\* C14: a successful updateTask changes only the targeted task, and of it
\* only the fields supplied in the input and updatedAt: its id, its
\* createdAt and every omitted field keep their values, every other task,
\* the order of the tasks and nextId are unchanged, and the updated task is
\* what is returned.
C14_UpdateChangesOnlySuppliedFields ==
  UpdateSucceeded
    => LET before == TasksOf(last.pre)
           after == TasksOf(Fs)
           i == PositionOf(before, last.id)
           input == last.input
       IN /\ Len(after) = Len(before)
          /\ \A j \in DOMAIN before : j # i => after[j] = before[j]
          /\ after[i].id = before[i].id
          /\ after[i].createdAt = before[i].createdAt
          /\ input.title = None => after[i].title = before[i].title
          /\ input.description = None
               => after[i].description = before[i].description
          /\ input.status = None => after[i].status = before[i].status
          /\ input.branch = None => after[i].branch = before[i].branch
          /\ NextIdOf(filePath) = NextIdOf(last.pre.filePath)
          /\ last.ret = Some(after[i])

C14_Witness ==
  /\ UpdateSucceeded
  /\ last.input = Patch(Some(<<"e", " ">>), None, None, None, {})
  /\ last.id = 2
  /\ Len(TasksOf(last.pre)) = 3
  /\ TasksOf(last.pre)[2].description # None
  /\ TasksOf(last.pre)[2].branch # None
  /\ TasksOf(Fs)[2].title = <<"e">>
  /\ last.now = 1

\* The input carries a description that is empty or only white space.
BlankDescription(input) ==
  input.description # None /\ Trim(input.description[1]) = <<>>

\* C15 as stated: a successful updateTask on a task that has a description
\* clears it exactly when the input carries an explicit description:
\* undefined or an empty or whitespace-only description.
C15_ClearsOnUndefinedOrBlank ==
  (UpdateSucceeded
     /\ TasksOf(last.pre)[PositionOf(TasksOf(last.pre), last.id)].description
          # None)
    => (TasksOf(Fs)[PositionOf(TasksOf(Fs), last.id)].description = None
          <=> ("description" \in last.input.explicit
                 \/ BlankDescription(last.input)))

\* C15: a successful updateTask on a task that has a description clears it
\* exactly when the input carries an empty or whitespace-only description;
\* an explicit description: undefined leaves the description as it was,
\* as an omitted one does.
C15_ClearsOnBlankOnly ==
  (UpdateSucceeded
     /\ TasksOf(last.pre)[PositionOf(TasksOf(last.pre), last.id)].description
          # None)
    => LET old == TasksOf(last.pre)[PositionOf(TasksOf(last.pre), last.id)]
           new == TasksOf(Fs)[PositionOf(TasksOf(Fs), last.id)]
       IN /\ new.description = None <=> BlankDescription(last.input)
          /\ "description" \in last.input.explicit
               => new.description = old.description

C15_Witness ==
  /\ UpdateSucceeded
  /\ last.input = Patch(None, Some(<<" ">>), None, None, {})
  /\ TasksOf(last.pre)[PositionOf(TasksOf(last.pre), last.id)].description
       = Some(<<"d">>)
  /\ TasksOf(Fs)[PositionOf(TasksOf(Fs), last.id)].description = None

\* How many times a file-system call is in the record of a call.
Count(events, e) == Cardinality({ k \in DOMAIN events : events[k] = e })

\* C16: every successful updateTask, one with an empty input included,
\* sets updatedAt of the task to the current time and saves the whole
\* database exactly once: one backup copy, then one write of the primary
\* file, which then holds every task and the counter.
C16_UpdateRefreshesAndSavesOnce ==
  UpdateSucceeded
    => /\ TasksOf(Fs)[PositionOf(TasksOf(Fs), last.id)].updatedAt = last.now
       /\ last.ret[1].updatedAt = last.now
       /\ Count(last.events, "write") = 1
       /\ Count(last.events, "copy") = 1
       /\ Count(last.events, "write_failed") = 0
       /\ backupPath = last.pre.filePath
       /\ filePath = JsonText(JObject(JArray(TasksOf(Fs)),
                                     NextIdOf(last.pre.filePath)))
       /\ Len(TasksOf(Fs)) = Len(TasksOf(last.pre))

C16_Witness ==
  /\ UpdateSucceeded
  /\ last.input = Patch(None, None, None, None, {})
  /\ last.now = 1
  /\ Len(TasksOf(Fs)) = 3
  /\ TasksOf(last.pre)[PositionOf(TasksOf(last.pre), last.id)].updatedAt = 0
  /\ TasksOf(Fs)[PositionOf(TasksOf(Fs), last.id)].updatedAt = 1
  /\ filePath # last.pre.filePath

\* The operations through which the engine and the start, done and archive
\* commands of the CLI set a status.
StatusOps == {"updateTask", "changeStatus", "archiveTask"}

\* C17 as stated: archived is terminal: updateTask, changeStatus and
\* archiveTask (hence the start, done and archive commands, which call
\* them) leave the status of an archived task archived.
C17_ArchivedIsTerminal ==
  (last.op \in StatusOps /\ last.id \in IdsOf(last.pre)
     /\ TasksOf(last.pre)[PositionOf(TasksOf(last.pre), last.id)].status
          = "archived")
    => /\ last.id \in IdsOf(Fs)
       /\ TasksOf(Fs)[PositionOf(TasksOf(Fs), last.id)].status = "archived"

\* The status a changeStatus, or an updateTask that supplies a status and
\* no title, was asked to set.
StatusAsked ==
  IF last.op = "changeStatus" THEN Some(last.input)
  ELSE IF last.op = "updateTask" /\ last.input.title = None
       THEN last.input.status
       ELSE None

Matches(t, options) ==
  /\ options.status = None \/ t.status = options.status[1]
  /\ options.includeArchived \/ t.status # "archived"

\* C19: listTasks(options) returns exactly the stored tasks whose status
\* is the one asked for (when one is) and that are not archived (unless
\* includeArchived is set), each once and in ascending id order, and leaves
\* the files as they were; so a task is in the default listing until it is
\* archived, and status archived without includeArchived gives the empty
\* list.
C19_ListTasksSelectsAndSorts ==
  (last.op = "listTasks" /\ last.error = NoError)
    => LET stored == TasksOf(last.pre)
           list == last.list
       IN /\ \A i \in DOMAIN stored :
               Matches(stored[i], last.input)
                 <=> \E k \in DOMAIN list : list[k] = stored[i]
          /\ \A k \in DOMAIN list : \E i \in DOMAIN stored :
               stored[i] = list[k]
          /\ \A k, m \in DOMAIN list : k < m => list[k].id < list[m].id
          /\ Fs = last.pre
          /\ last.events = <<>>
          /\ last.input = ListOptions(None, FALSE)
               => \A i \in DOMAIN stored :
                    stored[i].status # "archived"
                      <=> \E k \in DOMAIN list : list[k].id = stored[i].id
          /\ last.input = ListOptions(Some("archived"), FALSE)
               => list = <<>>

C19_Witness ==
  /\ last.op = "listTasks"
  /\ last.error = NoError
  /\ last.input = ListOptions(Some("archived"), FALSE)
  /\ Len(TasksOf(last.pre)) = 3
  /\ TasksOf(last.pre)[2].status = "archived"
  /\ last.list = <<>>

DeleteSucceeded == last.op = "deleteTask" /\ last.error = NoError

\* C20: a successful deleteTask removes the task with that id and nothing
\* else: every other task keeps its values and its place relative to the
\* others, nextId is unchanged, and a getTask(id) that follows throws the
\* not-found fault; a successful archiveTask removes no task.
C20_DeleteRemovesOnlyThatTask ==
  /\ DeleteSucceeded
       => LET before == TasksOf(last.pre)
              after == TasksOf(Fs)
              i == PositionOf(before, last.id)
          IN /\ Len(after) = Len(before) - 1
             /\ \A j \in DOMAIN after :
                  after[j] = IF j < i THEN before[j] ELSE before[j + 1]
             /\ last.id \notin IdsOf(Fs)
             /\ NextIdOf(filePath) = NextIdOf(last.pre.filePath)
             /\ getTask(Fs, last.id, IoOk).error = TaskNotFoundError
  /\ (last.op = "archiveTask" /\ last.error = NoError)
       => /\ Len(TasksOf(Fs)) = Len(TasksOf(last.pre))
          /\ IdsOf(Fs) = IdsOf(last.pre)
          /\ getTask(Fs, last.id, IoOk).ret[1].status = "archived"

C20_Witness ==
  /\ DeleteSucceeded
  /\ Len(TasksOf(last.pre)) = 3
  /\ last.id = 2
  /\ IdsOf(Fs) = {1, 3}
  /\ TasksOf(Fs)[2] = TasksOf(last.pre)[3]
  /\ NextIdOf(filePath) = JNumber(4)

\* C21: from the same disk and clock, changeStatus(id, s) returns the same
\* task, leaves the same primary and backup file and throws the same fault
\* as updateTask(id, {status: s}), and archiveTask(id) the same as
\* changeStatus(id, "archived").
C21_WrappersEqualUpdateTask ==
  /\ last.op = "changeStatus"
       => LET u == updateTask(last.pre, last.id,
                              UpdateTaskInput(None, None, Some(last.input),
                                              None),
                              last.now, IoOk)
          IN last.ret = u.ret /\ Fs = u.fs /\ last.error = u.error
  /\ last.op = "archiveTask"
       => LET c == changeStatus(last.pre, last.id, "archived", last.now,
                                IoOk)
          IN last.ret = c.ret /\ Fs = c.fs /\ last.error = c.error

C21_Witness ==
  /\ last.op = "archiveTask"
  /\ last.error = NoError
  /\ last.now = 1
  /\ TasksOf(last.pre)[PositionOf(TasksOf(last.pre), last.id)].branch
       = Some(<<"x">>)
  /\ last.ret[1].status = "archived"
  /\ last.ret[1].branch = Some(<<"x">>)
  /\ filePath # last.pre.filePath

(***************************************************************************)
(* Properties of the sanitizer and the branch name, checked under          *)
(* SanitizeSpec.                                                           *)
(***************************************************************************)
Sanitized == last.op = "sanitizeForBranchName"

\* C22: the sanitizer is idempotent: sanitizing what it returned returns
\* the same string.
C22_SanitizeIsIdempotent ==
  Sanitized => sanitizeForBranchName(last.ret[1]) = last.ret[1]

C22_Witness ==
  /\ Sanitized
  /\ last.input = Rep("a", MaxSlugLength - 1) \o <<" ", "A">>
  /\ last.ret[1] = Rep("a", MaxSlugLength - 1)

\* A branch-name slug.
IsSlug(s) ==
  /\ Len(s) \in 1..MaxSlugLength
  /\ \A i \in DOMAIN s : s[i] \in SlugChars
  /\ s[1] # "-"
  /\ s[Len(s)] # "-"
  /\ \A i \in 1..(Len(s) - 1) : ~(s[i] = "-" /\ s[i + 1] = "-")

\* C28: whatever the text, the sanitizer returns "untitled" or 1 to 50
\* characters, each a lowercase ASCII letter, a digit or a hyphen, with no
\* hyphen at either end and no two hyphens in a row; a hyphen that the cut
\* at 50 characters leaves at the end is removed.
C28_SlugIsWellFormed ==
  Sanitized => (last.ret[1] = Untitled \/ IsSlug(last.ret[1]))

C28_Witness ==
  /\ Sanitized
  /\ last.input = Rep("a", MaxSlugLength - 1) \o <<"-", "1">>
  /\ last.ret[1] = Rep("a", MaxSlugLength - 1)
  /\ IsSlug(last.ret[1])

AsciiAlnum == Range(LowerLetters) \cup Range(UpperLetters) \cup Range(Digits)
HasAsciiAlnum(s) == \E i \in DOMAIN s : s[i] \in AsciiAlnum

\* The lowercase form of the text from its first to its last ASCII letter
\* or digit, without the characters that are neither ASCII letters or
\* digits nor white space or hyphens.
IsKept(c) == c \in AsciiAlnum \cup WhiteSpace \cup {"-"}
Core(s) ==
  LET kept == SelectSeq(toLowerCase(s), IsKept)
      at == { i \in DOMAIN kept : kept[i] \in AsciiAlnum }
  IN IF at = {} THEN <<>>
     ELSE SubSeq(kept, CHOOSE i \in at : \A j \in at : i <= j,
                 CHOOSE i \in at : \A j \in at : j <= i)

RECURSIVE DecimalValue(_)
DecimalValue(d) ==
  IF d = <<>> THEN 0
  ELSE 10 * DecimalValue(SubSeq(d, 1, Len(d) - 1))
         + (CHOOSE i \in DOMAIN Digits : Digits[i] = d[Len(d)]) - 1

\* The string is "feature/task-", the decimal form of the id, a hyphen and
\* the slug.
IsBranchNameOf(name, id, slug) ==
  LET p == Len(BranchPrefix)
      n == Len(name) - p - 1 - Len(slug)
      d == SubSeq(name, p + 1, p + n)
  IN /\ n >= 1
     /\ SubSeq(name, 1, p) = BranchPrefix
     /\ \A i \in DOMAIN d : d[i] \in Range(Digits)
     /\ d[1] # "0"
     /\ DecimalValue(d) = id
     /\ name[p + n + 1] = "-"
     /\ SubSeq(name, p + n + 2, Len(name)) = slug

Generated == last.op = "generateBranchName"

BothSavedAfterBothLoaded ==
  /\ \A p \in Procs :
       inflight.calls[p].pc = "done" /\ inflight.calls[p].db # None
  /\ inflight.log[1].step = "load"
  /\ inflight.log[2].step = "load"

\* The invocation that wrote the primary file last, and the other one.
SecondSaver == inflight.calls[inflight.log[Len(inflight.log)].p]
FirstSaver == inflight.calls[3 - inflight.log[Len(inflight.log)].p]

Started == last.op = "start"
StartedOn(id) == Started /\ last.id = id /\ id \in IdsOf(last.pre)
GitCalls == {"status", "branchLocal", "checkout", "checkoutBranch"}

\* C26: the start command given an existing task outside a repository
\* fails with the fault of the source control, after the one call that
\* looks for the repository: no branch is looked up, checked out or
\* created, the task is not updated, and the primary and the backup file
\* (so the task's status and branch) are as they were.
C26_StartOutsideRepositoryChangesNothing ==
  \A id \in IdsOf(last.pre) :
    (StartedOn(id) /\ ~last.input.git.repo)
      => /\ last.error = GitError(MsgNoRepository)
         /\ last.events = <<"status_failed">>
         /\ \A i \in DOMAIN last.events :
              last.events[i] \notin GitCalls \cup {"updateTask"}
         /\ last.ret = None
         /\ Fs = last.pre

C26_Witness ==
  /\ StartedOn(1)
  /\ ~last.input.git.repo
  /\ last.error = GitError(MsgNoRepository)
  /\ TasksOf(Fs)[1].status = "open"
  /\ TasksOf(Fs)[1].branch = None

\* The status of task id on the disk fs; "none" when it is not stored.
StatusOf(fs, id) ==
  LET i == findIndex(TasksOf(fs), id)
  IN IF i = 0 THEN "none" ELSE TasksOf(fs)[i].status

\* C27: no command of the CLI takes a task from open to completed in one
\* step: a task that is completed after a command was not open before it.
C27_NoDirectOpenToCompleted ==
  \A id \in IdsOf(last.pre) :
    StatusOf(last.pre, id) = "open" => StatusOf(Fs, id) # "completed"

(***************************************************************************)
(* More properties of the persistence store, checked under StoreSpec.      *)
(***************************************************************************)
\* C30: when the write of the primary file fails during save, the primary
\* file that existed before the save has the content it had before.
C30_FailedWriteKeepsPrimary ==
  (last.op = "save" /\ Occurs(last.events, "write_failed")
     /\ last.pre.filePath # Absent)
    => filePath = last.pre.filePath

\* The kinds of fault the program defines.
FaultKinds ==
  {"TaskNotFoundError", "ValidationError", "GitError", "StorageError"}

\* What made a load throw: the file could not be read (storage), it is not
\* JSON (corruption), or it is JSON of the wrong shape (malformed).
LoadThrew == last.op = "load" /\ last.error # NoError
LoadFaultClass ==
  IF last.input.read = "fail" THEN "storage"
  ELSE IF last.pre.filePath.k = "raw" THEN "corruption"
  ELSE "malformed"

\* A fault of each class, as load throws it.
FaultOfClass ==
  [storage |-> load(Disk(TRUE, Garbage, Absent),
                    [IoOk EXCEPT !.read = "fail"]).error,
   corruption |-> load(Disk(TRUE, Garbage, Absent), IoOk).error,
   malformed |-> load(Disk(TRUE, JsonText(JNumber(5)), Absent), IoOk).error]

InitializeDone(p) == inflight.calls[p].pc = "done"

\* C31: initialize() throws the storage fault only when the creation of
\* the directory failed for another reason than the directory being there:
\* an invocation never fails because another invocation made the directory
\* between its existence check and its mkdir.
C31_InitializeFailsOnlyForOtherReasons ==
  \A p \in Initializers :
    (InitializeDone(p) /\ inflight.calls[p].error # NoError)
      => inflight.calls[p].mkdir = "fail"

(***************************************************************************)
(* More properties of the commands of the CLI, checked under CliSpec.      *)
(***************************************************************************)
StartSucceeded == Started /\ last.error = NoError
TaskOf(fs, id) == TasksOf(fs)[findIndex(TasksOf(fs), id)]

\* C32: a start command that succeeds has looked for the repository, then
\* listed the branches, then checked out the branch
\* generateBranchName(id, title) when it was listed and created it when it
\* was not, and then called updateTask once, in that order; afterwards the
\* stored task is in_progress and its branch is that name.
C32_StartOrderAndResult ==
  StartSucceeded
    => LET before == TaskOf(last.pre, last.id)
           after == TaskOf(Fs, last.id)
           name == generateBranchName(last.id, before.title)
       IN /\ SubSeq(last.events, 1, 4)
               = <<"status", "branchLocal",
                   IF last.input.git.listed THEN "checkout"
                   ELSE "checkoutBranch",
                   "updateTask">>
          /\ \A i \in 5..Len(last.events) :
               last.events[i] \notin GitCalls \cup {"updateTask"}
          /\ after.status = "in_progress"
          /\ after.branch = Some(name)
          /\ after.title = before.title
          /\ last.ret = Some(after)

C32_Witness ==
  /\ StartSucceeded
  /\ last.input.git.listed
  /\ TaskOf(last.pre, 1).status = "open"
  /\ TaskOf(Fs, 1).status = "in_progress"
  /\ TaskOf(Fs, 1).branch
       = Some(<<"f", "e", "a", "t", "u", "r", "e", "/", "t", "a", "s", "k",
                "-", "1", "-", "a", "-", "b">>)
  /\ last.events[3] = "checkout"

\* The repository is there and one of its later calls fails.
GitFails(git) ==
  git.repo /\ (git.branchLocal = "fail" \/ git.checkout = "fail")

\* C33: when listing the branches, checking the branch out or creating it
\* fails during the start command of an existing task, the command throws
\* the fault of that call, updateTask is not called, and the primary and
\* the backup file, so the task's status and branch, are as before.
C33_GitFailureLeavesStore ==
  \A id \in IdsOf(last.pre) :
    (StartedOn(id) /\ GitFails(last.input.git))
      => /\ last.error
              = GitError(IF last.input.git.branchLocal = "fail"
                         THEN MsgBranchCheckFailed
                         ELSE IF last.input.git.listed
                              THEN MsgCheckoutFailed
                              ELSE MsgBranchCreateFailed)
         /\ ~Occurs(last.events, "updateTask")
         /\ last.ret = None
         /\ Fs = last.pre
         /\ TaskOf(Fs, id) = TaskOf(last.pre, id)

C33_Witness ==
  /\ StartedOn(1)
  /\ ~last.input.git.listed
  /\ last.input.git.checkout = "fail"
  /\ last.error = GitError(MsgBranchCreateFailed)
  /\ last.events = <<"status", "branchLocal", "checkoutBranch_failed">>
  /\ filePath.k = "json"
  /\ TaskOf(Fs, 1).status = "open"
  /\ TaskOf(Fs, 1).branch = None

\* C34: in every state the commands add, start, done, archive and delete
\* reach, a stored task that has a branch has the branch
\* generateBranchName(its id, its title), and a stored task that is
\* in_progress has a branch.
C34_BranchIsCanonical ==
  \A i \in DOMAIN TasksOf(Fs) :
    LET task == TasksOf(Fs)[i]
    IN /\ task.branch # None
            => task.branch = Some(generateBranchName(task.id, task.title))
       /\ task.status = "in_progress" => task.branch # None

C34_Witness ==
  /\ last.op = "archive"
  /\ last.error = NoError
  /\ TaskOf(last.pre, 1).status = "completed"
  /\ TaskOf(Fs, 1).status = "archived"
  /\ TaskOf(Fs, 1).branch
       = Some(generateBranchName(1, <<"A", " ", "b">>))

(***************************************************************************)
(* More properties of title validation, checked under ValidationSpec.      *)
(***************************************************************************)
\* The tasks a primary file holds; none when it is absent or not JSON.
PersistedTasks(fs) ==
  IF fs.filePath.k = "json" THEN fs.filePath.v.tasks.items ELSE <<>>

\* C35: in every persisted state that createTask and updateTask calls
\* reach, the title of every stored task is its own trimmed form and is 1
\* to 200 characters long; and updateTask on a stored task throws for a
\* supplied title exactly the fault createTask throws for it.
C35_StoredTitlesAreValid ==
  /\ \A i \in DOMAIN PersistedTasks(Fs) :
       LET title == PersistedTasks(Fs)[i].title
       IN title = Trim(title) /\ Len(title) \in 1..MaxTitleLength
  /\ (last.op = "updateTask" /\ last.input.title # None
        /\ last.id \in IdsOf(last.pre))
       => LET c == createTask(Disk(FALSE, Absent, Absent),
                              CreateTaskInput(last.input.title[1], None),
                              last.now, IoOk)
          IN /\ last.error = c.error
             /\ last.error = NoError
                  => last.ret[1].title = c.ret[1].title

C35_Witness ==
  /\ last.op = "updateTask"
  /\ last.error = NoError
  /\ last.input.title = Some(<<" ">> \o Rep("a", MaxTitleLength - 1))
  /\ PersistedTasks(last.pre)[1].title = <<"a">>
  /\ PersistedTasks(Fs)[1].title = Rep("a", MaxTitleLength - 1)

(***************************************************************************)
(* More properties of the task engine, checked under EngineSpec, where the *)
(* clock only moves forward.                                               *)
(***************************************************************************)
\* C36: in every persisted state each task has updatedAt >= createdAt, and
\* a task stored before and after a call has the same createdAt: createdAt
\* keeps the value it got at creation for as long as the task is stored.
C36_TimestampsAreOrdered ==
  /\ \A i \in DOMAIN PersistedTasks(Fs) :
       PersistedTasks(Fs)[i].updatedAt >= PersistedTasks(Fs)[i].createdAt
  /\ \A i \in DOMAIN PersistedTasks(last.pre),
        j \in DOMAIN PersistedTasks(Fs) :
       PersistedTasks(last.pre)[i].id = PersistedTasks(Fs)[j].id
         => PersistedTasks(last.pre)[i].createdAt
              = PersistedTasks(Fs)[j].createdAt

C36_Witness ==
  /\ last.op \in StatusOps
  /\ last.error = NoError
  /\ last.now = 1
  /\ last.ret[1].createdAt = 0
  /\ last.ret[1].updatedAt = 1
  /\ \E i \in DOMAIN PersistedTasks(Fs) : PersistedTasks(Fs)[i] = last.ret[1]

(***************************************************************************)
(* The task engine with failing and interrupted saves.  The operations     *)
(* that save are called one after the other from an empty store, each with *)
(* any outcome of its file-system calls.  Here last.db is the primary file *)
(* as the latest successful save wrote it, None before the first one.      *)
(***************************************************************************)
SaveCompleted(r) == r.error = NoError /\ Occurs(r.events, "write")
LatestSaved(r) == IF SaveCompleted(r) THEN Some(r.fs.filePath) ELSE last.db

DurableCreateTask ==
  /\ Len(created) < MaxCreates
  /\ \E title \in {<<"a">>, <<" ">>}, io \in IoOutcomes :
       LET input == CreateTaskInput(title, None)
           r == createTask(Fs, input, clock, io)
       IN /\ Commit(r.fs, Call("createTask", 0, input, clock, r,
                               LatestSaved(r), FALSE))
          /\ created' = IF r.error = NoError
                        THEN Append(created, r.ret[1].id)
                        ELSE created
  /\ UNCHANGED <<clock, deleted>>

DurableUpdateTask ==
  /\ \E id \in 1..MaxCreates, io \in IoOutcomes :
       LET input == UpdateTaskInput(None, None, Some("completed"), None)
           r == updateTask(Fs, id, input, clock, io)
       IN Commit(r.fs, Call("updateTask", id, input, clock, r,
                            LatestSaved(r), FALSE))
  /\ UNCHANGED <<clock, created, deleted>>

DurableDeleteTask ==
  /\ \E id \in 1..MaxCreates, io \in IoOutcomes :
       LET r == deleteTask(Fs, id, io)
       IN /\ Commit(r.fs, Call("deleteTask", id, None, clock, r,
                               LatestSaved(r), FALSE))
          /\ deleted' = IF r.error = NoError THEN deleted \cup {id}
                        ELSE deleted
  /\ UNCHANGED <<clock, created>>

\* updateTask with a blank title, on a stored id or not.
DurableRetitleTask ==
  /\ \E id \in 1..MaxCreates :
       LET input == UpdateTaskInput(Some(<<" ">>), None, None, None)
           r == updateTask(Fs, id, input, clock, IoOk)
       IN Commit(r.fs, Call("updateTask", id, input, clock, r,
                            LatestSaved(r), FALSE))
  /\ UNCHANGED <<clock, created, deleted>>

DurableNext ==
  \/ DurableCreateTask
  \/ DurableUpdateTask
  \/ DurableRetitleTask
  \/ DurableDeleteTask

DurableSpec == Init /\ [][DurableNext]_vars

\* C37: whichever saves fail or are interrupted at the copy to the backup
\* or at the write of the primary file, from the first successful save on
\* the file written by the latest successful save is the content of the
\* primary or of the backup file; and an operation called on a primary file
\* that is not JSON fails at its load and copies nothing to the backup.
C37_LatestSaveSurvives ==
  /\ last.db # None => (filePath = last.db[1] \/ backupPath = last.db[1])
  /\ last.db # None => last.db[1].k = "json"
  /\ (last.op # "none" /\ last.pre.filePath.k = "raw")
       => /\ Fs = last.pre
          /\ last.events = <<>>
          /\ last.error # NoError

C37_Witness ==
  /\ last.op = "updateTask"
  /\ last.pre.filePath.k = "raw"
  /\ last.error = StorageError(MsgCorrupted)
  /\ last.db # None
  /\ filePath = Garbage
  /\ backupPath = last.db[1]
  /\ Len(PersistedTasks(Disk(TRUE, backupPath, Absent))) = 2

(***************************************************************************)
(* More properties of the branch name, checked under SanitizeSpec.         *)
(***************************************************************************)
\* The ids and titles a generated name is compared with: ids of which one
\* is a prefix of the other, and titles whose slugs start with a digit.
OtherIds == {1, 11, 12}
OtherTitles == {<<>>, <<"1">>, <<"a">>, <<"1", "a">>, <<"a", " ", "1">>}

\* C38: the branch names of two different ids differ, whatever the titles:
\* also when the titles have the same slug and when a slug starts with a
\* digit.
C38_DifferentIdsDifferentNames ==
  Generated
    => \A j \in OtherIds, t \in OtherTitles :
         j # last.id => generateBranchName(j, t) # last.ret[1]

C38_Witness ==
  /\ Generated
  /\ last.id = 1
  /\ last.input = <<"1", "a">>
  /\ last.ret[1] = BranchPrefix \o <<"1", "-", "1", "a">>
  /\ generateBranchName(11, <<"a">>) = BranchPrefix \o <<"1", "1", "-", "a">>
  /\ sanitizeForBranchName(<<"1", "a">>)
       = sanitizeForBranchName(<<"1", "a", " ">>)

\* The commands that take a task id, and the id argument of the last one.
IdCommands == {"start", "done", "delete", "archive"}
IdArgument == IF Started THEN last.input.idString ELSE last.input

\* The decimal representation of a positive integer.
IsPositiveDecimal(s) ==
  /\ s # <<>>
  /\ \A i \in DOMAIN s : s[i] \in Range(Digits)
  /\ s[1] # "0"

\* C39: a command given an id argument that is not the decimal
\* representation of a positive integer throws the validation fault before
\* any operation of the engine is called, and leaves the store as it was.
C39_RejectsMalformedIds ==
  (last.op \in IdCommands /\ ~IsPositiveDecimal(IdArgument))
    => /\ last.error = ValidationError(MsgIdNotPositive)
       /\ last.events = <<>>
       /\ Fs = last.pre

\* The title given to the latest createTask or updateTask is rejected.
TitleRejected(title) == validateTitle(title) # NoError

\* C40: updateTask with an id that is not stored and a title that is
\* rejected throws the not-found fault, the id being looked up before the
\* title is checked; createTask with a rejected title throws the validation
\* fault without loading the store, also when the primary file is not
\* JSON.
C40_FaultPrecedence ==
  /\ (last.op = "updateTask" /\ last.input.title # None
        /\ TitleRejected(last.input.title[1])
        /\ last.pre.filePath.k # "raw")
       => /\ last.id \notin IdsOf(last.pre)
               => last.error = TaskNotFoundError
          /\ last.id \in IdsOf(last.pre)
               => last.error = validateTitle(last.input.title[1])
          /\ Fs = last.pre
  /\ (last.op = "createTask" /\ TitleRejected(last.input.title))
       => /\ last.error = validateTitle(last.input.title)
          /\ last.error.name = "ValidationError"
          /\ last.events = <<>>
          /\ Fs = last.pre

C40_Witness ==
  /\ last.op = "createTask"
  /\ last.pre.filePath = Garbage
  /\ last.pre.backupPath.k = "json"
  /\ last.input.title = <<" ">>
  /\ last.error = ValidationError(MsgTitleRequired)
  /\ load(last.pre, IoOk).error = StorageError(MsgCorrupted)

====
